---- MODULE Spec2Model ----
(***************************************************************************)
(* Model of phoenix-types: the price-time-priority key FIFOOrderId and its *)
(* comparator, the side decoded from an order sequence number, the         *)
(* FIFOMarket record with its two books and its trader registry, and the   *)
(* ladder view Market::get_ladder.                                         *)
(*                                                                         *)
(* u64 is modelled at a reduced width of WordBits bits: every u64 of the   *)
(* program is a value of 0 .. 2^WordBits - 1, the "top bit" is the bit     *)
(* 2^(WordBits-1), and u64 arithmetic wraps at 2^WordBits.                 *)
(***************************************************************************)
EXTENDS Integers, Sequences, FiniteSets, TLC

----------------------------------------------------------------------------
(* Bounds                                                                  *)

\* width, in bits, of the model's u64
WordBits == 3
\* prices (num_quote_ticks_per_base_unit) range over 0 .. MaxPrice
MaxPrice == 2
\* capacities of the bids tree and of the asks tree
BIDS_SIZE == 3
ASKS_SIZE == 3
\* the market counter stops at MaxArrivals
MaxArrivals == 3
\* get_ladder is called with levels in 0 .. MaxLevels
MaxLevels == 2
\* capacity of the ordered map whose arena is modelled slot by slot
MAX_SIZE == 3
\* a market handed to the reads holds 0 .. MaxFill entries in each of its trees
MaxFill == 2

Modulus == 2 ^ WordBits
TopBit == 2 ^ (WordBits - 1)
U64 == 0 .. (Modulus - 1)
Prices == 0 .. MaxPrice

----------------------------------------------------------------------------
(* enums.rs: Side                                                          *)

\* u64::leading_zeros, bit by bit from the most significant bit down
RECURSIVE LeadingZerosFrom(_, _)
LeadingZerosFrom(n, bit) ==
    IF bit < 0 THEN 0
    ELSE IF (n \div (2 ^ bit)) % 2 = 1 THEN 0
    ELSE 1 + LeadingZerosFrom(n, bit - 1)

leading_zeros(n) == LeadingZerosFrom(n, WordBits - 1)

\* a plausible slip: the side read from the lowest bit instead of the top bit
from_order_sequence_number_LowBit(order_sequence_number) ==
    IF order_sequence_number % 2 = 1 THEN "Bid" ELSE "Ask"

\* Side::from_order_sequence_number
from_order_sequence_number(order_sequence_number) ==
    IF leading_zeros(order_sequence_number) = 0 THEN "Bid" ELSE "Ask"

\* a plausible slip: opposite returns the side it was given
opposite_Same(side) == side

\* Side::opposite
opposite(side) == IF side = "Bid" THEN "Ask" ELSE "Bid"

----------------------------------------------------------------------------
(* market.rs: FIFOOrderId and its order                                    *)

\* FIFOOrderId::new
FIFOOrderId(num_quote_ticks_per_base_unit, order_sequence_number) ==
    [num_quote_ticks_per_base_unit |-> num_quote_ticks_per_base_unit,
     order_sequence_number |-> order_sequence_number]

\* u64::partial_cmp, which is never None
u64_cmp(x, y) == IF x < y THEN "Less" ELSE IF x = y THEN "Equal" ELSE "Greater"

\* a plausible slip: the bid branch compares self to other, as the ask branch does
partial_cmp_BidAsAsk(self, other) ==
    LET tick_cmp == u64_cmp(self.num_quote_ticks_per_base_unit,
                            other.num_quote_ticks_per_base_unit)
        seq_cmp == u64_cmp(self.order_sequence_number, other.order_sequence_number)
    IN  IF tick_cmp = "Equal" THEN seq_cmp ELSE tick_cmp

\* a plausible slip: the bid branch reverses the price only, not the sequence
partial_cmp_BidSeqForward(self, other) ==
    LET bid == from_order_sequence_number(self.order_sequence_number) = "Bid"
        tick_cmp == IF bid
                    THEN u64_cmp(other.num_quote_ticks_per_base_unit,
                                 self.num_quote_ticks_per_base_unit)
                    ELSE u64_cmp(self.num_quote_ticks_per_base_unit,
                                 other.num_quote_ticks_per_base_unit)
        seq_cmp == u64_cmp(self.order_sequence_number, other.order_sequence_number)
    IN  IF tick_cmp = "Equal" THEN seq_cmp ELSE tick_cmp

\* a plausible slip: the ask branch compares other to self, as the bid branch does
partial_cmp_AskAsBid(self, other) ==
    LET tick_cmp == u64_cmp(other.num_quote_ticks_per_base_unit,
                            self.num_quote_ticks_per_base_unit)
        seq_cmp == u64_cmp(other.order_sequence_number, self.order_sequence_number)
    IN  IF tick_cmp = "Equal" THEN seq_cmp ELSE tick_cmp

\* a plausible slip: the sequence comparison is dropped, equal prices tie
partial_cmp_PriceOnly(self, other) ==
    IF from_order_sequence_number(self.order_sequence_number) = "Bid"
    THEN u64_cmp(other.num_quote_ticks_per_base_unit, self.num_quote_ticks_per_base_unit)
    ELSE u64_cmp(self.num_quote_ticks_per_base_unit, other.num_quote_ticks_per_base_unit)

\* a plausible slip: the sequence comparison decides unless it is Equal
partial_cmp_SeqFirst(self, other) ==
    LET pair ==
            IF from_order_sequence_number(self.order_sequence_number) = "Bid"
            THEN <<u64_cmp(other.num_quote_ticks_per_base_unit,
                           self.num_quote_ticks_per_base_unit),
                   u64_cmp(other.order_sequence_number, self.order_sequence_number)>>
            ELSE <<u64_cmp(self.num_quote_ticks_per_base_unit,
                           other.num_quote_ticks_per_base_unit),
                   u64_cmp(self.order_sequence_number, other.order_sequence_number)>>
        tick_cmp == pair[1]
        seq_cmp == pair[2]
    IN  IF seq_cmp = "Equal" THEN tick_cmp ELSE seq_cmp

\* a plausible slip: the side is decoded from the other key
partial_cmp_SideOfOther(self, other) ==
    LET pair ==
            IF from_order_sequence_number(other.order_sequence_number) = "Bid"
            THEN <<u64_cmp(other.num_quote_ticks_per_base_unit,
                           self.num_quote_ticks_per_base_unit),
                   u64_cmp(other.order_sequence_number, self.order_sequence_number)>>
            ELSE <<u64_cmp(self.num_quote_ticks_per_base_unit,
                           other.num_quote_ticks_per_base_unit),
                   u64_cmp(self.order_sequence_number, other.order_sequence_number)>>
        tick_cmp == pair[1]
        seq_cmp == pair[2]
    IN  IF tick_cmp = "Equal" THEN seq_cmp ELSE tick_cmp

\* impl PartialOrd for FIFOOrderId: partial_cmp, with the Some(..) unwrapped
partial_cmp(self, other) ==
    LET pair ==
            IF from_order_sequence_number(self.order_sequence_number) = "Bid"
            THEN <<u64_cmp(other.num_quote_ticks_per_base_unit,
                           self.num_quote_ticks_per_base_unit),
                   u64_cmp(other.order_sequence_number, self.order_sequence_number)>>
            ELSE <<u64_cmp(self.num_quote_ticks_per_base_unit,
                           other.num_quote_ticks_per_base_unit),
                   u64_cmp(self.order_sequence_number, other.order_sequence_number)>>
        tick_cmp == pair[1]
        seq_cmp == pair[2]
    IN  IF tick_cmp = "Equal" THEN seq_cmp ELSE tick_cmp

\* impl Ord for FIFOOrderId: cmp
cmp(self, other) == partial_cmp(self, other)

----------------------------------------------------------------------------
(* market.rs: the records of the book and of the ladder                    *)

\* FIFORestingOrder::new
FIFORestingOrder(trader_index, num_base_lots) ==
    [trader_index |-> trader_index, num_base_lots |-> num_base_lots]

\* TraderState, zeroed as a new seat holds it
TraderStateDefault ==
    [adjusted_quote_lots_locked |-> 0, adjusted_quote_lots_free |-> 0,
     base_lots_locked |-> 0, base_lots_free |-> 0]

\* LadderOrder
LadderOrder(price_in_ticks, size_in_base_lots) ==
    [price_in_ticks |-> price_in_ticks, size_in_base_lots |-> size_in_base_lots]

\* the bitwise inverse !c of a u64
BitNot(c) == (Modulus - 1) - c

\* a plausible slip: the counter is used as is for both sides
OrderSequenceField_NoInvert(side, c) == c

\* the order_sequence_number field of the key of an order that arrives with the
\* market counter c: inverted for a bid, as is for an ask
OrderSequenceField(side, c) == IF side = "Bid" THEN BitNot(c) ELSE c

----------------------------------------------------------------------------
(* The ordered map (sokoban RedBlackTree) behind bids, asks and traders:   *)
(* a tree is the sequence of its [key, value] entries in iteration order.  *)

\* the Ord of the tree's key type: FIFOOrderId for the books, Pubkey (compared
\* as an unsigned number) for the trader registry
KeyOrder(kind, a, b) == IF kind = "FIFOOrderId" THEN cmp(a, b) ELSE u64_cmp(a, b)

TreeKeys(tree) == {tree[i].key : i \in 1 .. Len(tree)}

\* get: the value stored for key, or the empty sequence for None
TreeGet(tree, key) ==
    LET hit == {i \in 1 .. Len(tree) : tree[i].key = key}
    IN  IF hit = {} THEN <<>> ELSE <<tree[CHOOSE i \in hit : TRUE].value>>

\* insert under the key order of `kind`: None (ok = FALSE) when all capacity slots
\* are taken, the value replaced when the key is present, and otherwise the
\* entry placed after the entries the key compares Greater than
TreeInsert(tree, capacity, kind, key, value) ==
    LET entry == [key |-> key, value |-> value]
        same == {i \in 1 .. Len(tree) : KeyOrder(kind, key, tree[i].key) = "Equal"}
        below == {i \in 1 .. Len(tree) : KeyOrder(kind, key, tree[i].key) = "Greater"}
        n == Cardinality(below)
    IN  IF same # {}
        THEN [ok |-> TRUE,
              tree |-> [i \in 1 .. Len(tree) |-> IF i \in same THEN entry ELSE tree[i]]]
        ELSE IF Len(tree) >= capacity
        THEN [ok |-> FALSE, tree |-> tree]
        ELSE [ok |-> TRUE,
              tree |-> SubSeq(tree, 1, n) \o <<entry>> \o SubSeq(tree, n + 1, Len(tree))]

\* remove: the tree without the entry of key
TreeRemove(tree, key) == SelectSeq(tree, LAMBDA e : e.key # key)

----------------------------------------------------------------------------
(* The arena of the ordered map: MAX_SIZE slots addressed 1 .. MAX_SIZE,   *)
(* each with key, value and left/right/parent/color, a free list threaded  *)
(* through the unused slots, and a red-black tree linked over the others.  *)
(* Slot 0 is the sentinel: no entry lives there, it is black, and its      *)
(* parent link is scratch space while an entry is being removed.           *)

\* the address that means "absent"
SENTINEL == 0

Opp(dir) == IF dir = "left" THEN "right" ELSE "left"

\* a slot holding (key, value) with no links
Node(key, value) ==
    [key |-> key, value |-> value, left |-> SENTINEL, right |-> SENTINEL,
     parent |-> SENTINEL, color |-> "Black"]

\* the empty tree over zeroed slots: every slot is on the free list, which a
\* free slot continues in its left link
RedBlackTreeDefault(key, value) ==
    [root |-> SENTINEL,
     size |-> 0,
     free_list_head |-> 1,
     nodes |-> [i \in 0 .. MAX_SIZE |->
                  [Node(key, value) EXCEPT
                     !.left = IF i = 0 \/ i = MAX_SIZE THEN SENTINEL ELSE i + 1]]]

\* the slots on the free list, and the slots that hold an entry
RECURSIVE FreeFrom(_, _, _)
FreeFrom(t, i, fuel) ==
    IF i = SENTINEL \/ fuel = 0 THEN {}
    ELSE {i} \cup FreeFrom(t, t.nodes[i].left, fuel - 1)

FreeSlots(t) == FreeFrom(t, t.free_list_head, MAX_SIZE)
OccupiedSlots(t) == (1 .. MAX_SIZE) \ FreeSlots(t)

\* the walk down from cur towards key: the slot of key (or the sentinel), and
\* the last slot visited before it with the side taken there
RECURSIVE walk(_, _, _, _, _, _, _)
walk(t, kind, key, cur, parent, dir, fuel) ==
    IF cur = SENTINEL \/ fuel = 0
    THEN [addr |-> SENTINEL, parent |-> parent, dir |-> dir]
    ELSE LET o == KeyOrder(kind, key, t.nodes[cur].key)
         IN  IF o = "Equal"
             THEN [addr |-> cur, parent |-> parent, dir |-> dir]
             ELSE IF o = "Less"
             THEN walk(t, kind, key, t.nodes[cur].left, cur, "left", fuel - 1)
             ELSE walk(t, kind, key, t.nodes[cur].right, cur, "right", fuel - 1)

find(t, kind, key) == walk(t, kind, key, t.root, SENTINEL, "left", MAX_SIZE + 1)

\* get_addr: the slot of key, or the sentinel
get_addr(t, kind, key) == find(t, kind, key).addr

\* get: the value stored for key, or the empty sequence for None
get(t, kind, key) ==
    LET addr == get_addr(t, kind, key)
    IN  IF addr = SENTINEL THEN <<>> ELSE <<t.nodes[addr].value>>

\* a plausible slip: the slot is yielded before its left subtree
RECURSIVE in_order_SlotFirst(_, _, _)
in_order_SlotFirst(t, cur, fuel) ==
    IF cur = SENTINEL \/ fuel = 0 THEN <<>>
    ELSE <<[key |-> t.nodes[cur].key, value |-> t.nodes[cur].value]>>
         \o in_order_SlotFirst(t, t.nodes[cur].left, fuel - 1)
         \o in_order_SlotFirst(t, t.nodes[cur].right, fuel - 1)

\* iteration: the entries met left subtree first, then the slot, then the right
RECURSIVE in_order(_, _, _)
in_order(t, cur, fuel) ==
    IF cur = SENTINEL \/ fuel = 0 THEN <<>>
    ELSE in_order(t, t.nodes[cur].left, fuel - 1)
         \o <<[key |-> t.nodes[cur].key, value |-> t.nodes[cur].value]>>
         \o in_order(t, t.nodes[cur].right, fuel - 1)

iter(t) == in_order(t, t.root, MAX_SIZE + 1)

\* the rotation at x towards dir: x's child on the other side takes x's place,
\* x becomes its dir child; slots are relinked, none is moved
rotate(t, x, dir) ==
    LET o == Opp(dir)
        y == t.nodes[x][o]
        b == t.nodes[y][dir]
        p == t.nodes[x].parent
        t1 == [t EXCEPT !.nodes[x][o] = b]
        t2 == IF b # SENTINEL THEN [t1 EXCEPT !.nodes[b].parent = x] ELSE t1
        t3 == [t2 EXCEPT !.nodes[y].parent = p]
        t4 == IF p = SENTINEL THEN [t3 EXCEPT !.root = y]
              ELSE IF t.nodes[p].left = x THEN [t3 EXCEPT !.nodes[p].left = y]
              ELSE [t3 EXCEPT !.nodes[p].right = y]
    IN  [t4 EXCEPT !.nodes[y][dir] = x, !.nodes[x].parent = y]

\* recolouring and rotations after the red slot z was linked in
RECURSIVE fix_insert(_, _, _)
fix_insert(t, z, fuel) ==
    LET p == t.nodes[z].parent
    IN  IF p = SENTINEL \/ t.nodes[p].color = "Black" \/ fuel = 0
        THEN [t EXCEPT !.nodes[t.root].color = "Black"]
        ELSE LET g == t.nodes[p].parent
                 dir == IF t.nodes[g].left = p THEN "left" ELSE "right"
                 u == t.nodes[g][Opp(dir)]
             IN  IF u # SENTINEL /\ t.nodes[u].color = "Red"
                 THEN fix_insert([t EXCEPT !.nodes[p].color = "Black",
                                           !.nodes[u].color = "Black",
                                           !.nodes[g].color = "Red"], g, fuel - 1)
                 ELSE LET t1 == IF t.nodes[p][Opp(dir)] = z THEN rotate(t, p, dir) ELSE t
                          p1 == t1.nodes[g][dir]
                          t2 == [t1 EXCEPT !.nodes[p1].color = "Black",
                                           !.nodes[g].color = "Red"]
                          t3 == rotate(t2, g, Opp(dir))
                      IN  [t3 EXCEPT !.nodes[t3.root].color = "Black"]

\* a slot is taken off the free list for (key, value)
add_node(t, key, value) ==
    LET i == t.free_list_head
    IN  [addr |-> i,
         tree |-> [t EXCEPT !.free_list_head = t.nodes[i].left,
                            !.size = t.size + 1,
                            !.nodes[i] = [Node(key, value) EXCEPT !.color = "Red"]]]

\* a plausible slip: a key already present keeps the value it has
insert_NoReplace(t, kind, key, value) ==
    LET f == find(t, kind, key)
    IN  IF f.addr # SENTINEL
        THEN [ok |-> TRUE, addr |-> f.addr, tree |-> t]
        ELSE IF t.free_list_head = SENTINEL
        THEN [ok |-> FALSE, addr |-> SENTINEL, tree |-> t]
        ELSE LET a == add_node(t, key, value)
                 t1 == [a.tree EXCEPT !.nodes[a.addr].parent = f.parent]
                 t2 == IF f.parent = SENTINEL THEN [t1 EXCEPT !.root = a.addr]
                       ELSE [t1 EXCEPT !.nodes[f.parent][f.dir] = a.addr]
             IN  [ok |-> TRUE, addr |-> a.addr,
                  tree |-> fix_insert(t2, a.addr, MAX_SIZE + 1)]

\* a plausible slip: with no slot free the entry takes the slot the walk
\* ended at
insert_OverwriteOnFull(t, kind, key, value) ==
    LET f == find(t, kind, key)
    IN  IF f.addr # SENTINEL
        THEN [ok |-> TRUE, addr |-> f.addr,
              tree |-> [t EXCEPT !.nodes[f.addr].value = value]]
        ELSE IF t.free_list_head = SENTINEL
        THEN [ok |-> TRUE, addr |-> f.parent,
              tree |-> [t EXCEPT !.nodes[f.parent].key = key,
                                 !.nodes[f.parent].value = value]]
        ELSE LET a == add_node(t, key, value)
                 t1 == [a.tree EXCEPT !.nodes[a.addr].parent = f.parent]
                 t2 == IF f.parent = SENTINEL THEN [t1 EXCEPT !.root = a.addr]
                       ELSE [t1 EXCEPT !.nodes[f.parent][f.dir] = a.addr]
             IN  [ok |-> TRUE, addr |-> a.addr,
                  tree |-> fix_insert(t2, a.addr, MAX_SIZE + 1)]

\* insert: the value replaced in place when the key is present; otherwise
\* CapacityExceeded (ok = FALSE) when no slot is free, else a free slot linked
\* in as a red leaf where the walk ended, and the tree rebalanced
insert(t, kind, key, value) ==
    LET f == find(t, kind, key)
    IN  IF f.addr # SENTINEL
        THEN [ok |-> TRUE, addr |-> f.addr,
              tree |-> [t EXCEPT !.nodes[f.addr].value = value]]
        ELSE IF t.free_list_head = SENTINEL
        THEN [ok |-> FALSE, addr |-> SENTINEL, tree |-> t]
        ELSE LET a == add_node(t, key, value)
                 t1 == [a.tree EXCEPT !.nodes[a.addr].parent = f.parent]
                 t2 == IF f.parent = SENTINEL THEN [t1 EXCEPT !.root = a.addr]
                       ELSE [t1 EXCEPT !.nodes[f.parent][f.dir] = a.addr]
             IN  [ok |-> TRUE, addr |-> a.addr,
                  tree |-> fix_insert(t2, a.addr, MAX_SIZE + 1)]

\* v takes u's place under u's parent (v may be the sentinel, whose parent
\* link then remembers where the gap is)
transplant(t, u, v) ==
    LET p == t.nodes[u].parent
        t1 == IF p = SENTINEL THEN [t EXCEPT !.root = v]
              ELSE IF t.nodes[p].left = u THEN [t EXCEPT !.nodes[p].left = v]
              ELSE [t EXCEPT !.nodes[p].right = v]
    IN  [t1 EXCEPT !.nodes[v].parent = p]

\* the leftmost slot under cur
RECURSIVE minimum(_, _, _)
minimum(t, cur, fuel) ==
    IF t.nodes[cur].left = SENTINEL \/ fuel = 0 THEN cur
    ELSE minimum(t, t.nodes[cur].left, fuel - 1)

\* a plausible slip: the successor takes z's place without z's left subtree
unlink_DropsLeft(t, z) ==
    LET zl == t.nodes[z].left
        zr == t.nodes[z].right
    IN  IF zl = SENTINEL
        THEN [tree |-> transplant(t, z, zr), x |-> zr, color |-> t.nodes[z].color]
        ELSE IF zr = SENTINEL
        THEN [tree |-> transplant(t, z, zl), x |-> zl, color |-> t.nodes[z].color]
        ELSE LET y == minimum(t, zr, MAX_SIZE)
                 x == t.nodes[y].right
                 ta == IF t.nodes[y].parent = z
                       THEN [t EXCEPT !.nodes[x].parent = y]
                       ELSE [transplant(t, y, x) EXCEPT !.nodes[y].right = zr,
                                                        !.nodes[zr].parent = y]
                 tb == transplant(ta, z, y)
             IN  [tree |-> [tb EXCEPT !.nodes[y].color = t.nodes[z].color],
                  x |-> x, color |-> t.nodes[y].color]

\* the slot z is taken out of the tree by relinking: with two children its
\* successor y takes its place and its colour. Returns the tree, the slot x
\* that moved up into the gap, and the colour that left the tree
unlink(t, z) ==
    LET zl == t.nodes[z].left
        zr == t.nodes[z].right
    IN  IF zl = SENTINEL
        THEN [tree |-> transplant(t, z, zr), x |-> zr, color |-> t.nodes[z].color]
        ELSE IF zr = SENTINEL
        THEN [tree |-> transplant(t, z, zl), x |-> zl, color |-> t.nodes[z].color]
        ELSE LET y == minimum(t, zr, MAX_SIZE)
                 x == t.nodes[y].right
                 ta == IF t.nodes[y].parent = z
                       THEN [t EXCEPT !.nodes[x].parent = y]
                       ELSE [transplant(t, y, x) EXCEPT !.nodes[y].right = zr,
                                                        !.nodes[zr].parent = y]
                 tb == transplant(ta, z, y)
             IN  [tree |-> [tb EXCEPT !.nodes[y].left = zl,
                                      !.nodes[zl].parent = y,
                                      !.nodes[y].color = t.nodes[z].color],
                  x |-> x, color |-> t.nodes[y].color]

\* recolouring and rotations after a black slot left the tree above x
RECURSIVE fix_remove(_, _, _)
fix_remove(t, x, fuel) ==
    IF x = t.root \/ t.nodes[x].color = "Red" \/ fuel = 0
    THEN [t EXCEPT !.nodes[x].color = "Black"]
    ELSE LET p == t.nodes[x].parent
             dir == IF t.nodes[p].left = x THEN "left" ELSE "right"
             o == Opp(dir)
             w0 == t.nodes[p][o]
             t1 == IF t.nodes[w0].color = "Red"
                   THEN rotate([t EXCEPT !.nodes[w0].color = "Black",
                                         !.nodes[p].color = "Red"], p, dir)
                   ELSE t
             w == t1.nodes[p][o]
         IN  IF /\ t1.nodes[t1.nodes[w].left].color = "Black"
                /\ t1.nodes[t1.nodes[w].right].color = "Black"
             THEN fix_remove([t1 EXCEPT !.nodes[w].color = "Red"], p, fuel - 1)
             ELSE LET t2 == IF t1.nodes[t1.nodes[w][o]].color = "Black"
                            THEN rotate([t1 EXCEPT !.nodes[t1.nodes[w][dir]].color = "Black",
                                                   !.nodes[w].color = "Red"], w, o)
                            ELSE t1
                      w2 == t2.nodes[p][o]
                      t3 == [t2 EXCEPT !.nodes[w2].color = t2.nodes[p].color,
                                       !.nodes[p].color = "Black",
                                       !.nodes[t2.nodes[w2][o]].color = "Black"]
                      t4 == rotate(t3, p, dir)
                  IN  [t4 EXCEPT !.nodes[t4.root].color = "Black"]

\* a plausible slip: the slot is zeroed but never put back on the free list
remove_node_NoFree(t, i) ==
    LET zero == Node(t.nodes[SENTINEL].key, t.nodes[SENTINEL].value)
    IN  [t EXCEPT !.nodes[i] = zero,
                  !.nodes[SENTINEL] = zero,
                  !.size = t.size - 1]

\* the slot i is zeroed and put at the head of the free list, and the
\* sentinel's scratch links are cleared
remove_node(t, i) ==
    LET zero == Node(t.nodes[SENTINEL].key, t.nodes[SENTINEL].value)
    IN  [t EXCEPT !.nodes[i] = [zero EXCEPT !.left = t.free_list_head],
                  !.nodes[SENTINEL] = zero,
                  !.free_list_head = i,
                  !.size = t.size - 1]

\* a plausible slip: a slot with two children is kept and takes its
\* successor's key and value, and the successor's slot is the one freed
remove_CopySuccessor(t, kind, key) ==
    LET z == get_addr(t, kind, key)
    IN  IF z = SENTINEL
        THEN [value |-> <<>>, tree |-> t]
        ELSE LET two == t.nodes[z].left # SENTINEL /\ t.nodes[z].right # SENTINEL
                 y == IF two THEN minimum(t, t.nodes[z].right, MAX_SIZE) ELSE z
                 tc == [t EXCEPT !.nodes[z].key = t.nodes[y].key,
                                 !.nodes[z].value = t.nodes[y].value]
                 u == unlink(tc, y)
                 t1 == IF u.color = "Black"
                       THEN fix_remove(u.tree, u.x, MAX_SIZE + 1)
                       ELSE u.tree
             IN  [value |-> <<t.nodes[z].value>>, tree |-> remove_node(t1, y)]

\* remove: None (the empty sequence) when the key is absent; otherwise the
\* slot of the key is taken out of the tree, the tree rebalanced, the slot
\* freed, and the value it held returned
remove(t, kind, key) ==
    LET z == get_addr(t, kind, key)
    IN  IF z = SENTINEL
        THEN [value |-> <<>>, tree |-> t]
        ELSE LET u == unlink(t, z)
                 t1 == IF u.color = "Black"
                       THEN fix_remove(u.tree, u.x, MAX_SIZE + 1)
                       ELSE u.tree
             IN  [value |-> <<t.nodes[z].value>>, tree |-> remove_node(t1, z)]

\* a plausible slip: the address is wrapped without the sentinel test
get_trader_address_NoSentinelCheck(traders, trader) ==
    <<get_addr(traders, "Pubkey", trader)>>

\* FIFOMarket::get_trader_address on the registry self.traders: None (the
\* empty sequence) when get_addr gives the sentinel, else Some(addr)
get_trader_address(traders, trader) ==
    LET addr == get_addr(traders, "Pubkey", trader)
    IN  IF addr = SENTINEL THEN <<>> ELSE <<addr>>

\* FIFOMarket::get_trader_state on the registry self.traders
get_trader_state(traders, trader) == get(traders, "Pubkey", trader)

----------------------------------------------------------------------------
(* market.rs: Market::get_book and Market::get_ladder                      *)

\* a plausible slip: both arms of the match name the bids
get_book_AlwaysBids(m, side) == m.bids

\* FIFOMarket::get_book, as the sequence get_book(side).iter() yields
get_book(m, side) == IF side = "Bid" THEN m.bids ELSE m.asks

\* FIFOMarket::get_registered_traders, get_base_lots_per_base_unit and
\* get_quote_lots_per_tick
get_registered_traders(m) == m.traders
get_base_lots_per_base_unit(m) == m.base_lots_per_base_unit
get_quote_lots_per_tick(m) == m.quote_lots_per_tick

\* a plausible slip: the depth cap is tested after the push instead of before
RECURSIVE ladder_loop_LateCap(_, _, _, _, _)
ladder_loop_LateCap(entries, i, book, levels, checks) ==
    IF i > Len(entries) THEN [panicked |-> FALSE, book |-> book]
    ELSE
        LET price == entries[i].key.num_quote_ticks_per_base_unit
            size == entries[i].value.num_base_lots
        IN  IF book = <<>>
            THEN ladder_loop_LateCap(entries, i + 1,
                                     <<LadderOrder(price, size)>>, levels, checks)
            ELSE
                LET last == book[Len(book)]
                    total == last.size_in_base_lots + size
                IN  IF last.price_in_ticks = price
                    THEN IF total >= Modulus /\ checks
                         THEN [panicked |-> TRUE, book |-> book]
                         ELSE ladder_loop_LateCap(entries, i + 1,
                                  [book EXCEPT ![Len(book)].size_in_base_lots = total % Modulus],
                                  levels, checks)
                    ELSE IF Len(book) > levels
                         THEN [panicked |-> FALSE, book |-> book]
                         ELSE ladder_loop_LateCap(entries, i + 1,
                                  Append(book, LadderOrder(price, size)), levels, checks)

\* a plausible slip: every entry is pushed as a level of its own, none merged
RECURSIVE ladder_loop_NoMerge(_, _, _, _, _)
ladder_loop_NoMerge(entries, i, book, levels, checks) ==
    IF i > Len(entries) THEN [panicked |-> FALSE, book |-> book]
    ELSE
        LET price == entries[i].key.num_quote_ticks_per_base_unit
            size == entries[i].value.num_base_lots
        IN  IF Len(book) = levels
            THEN [panicked |-> FALSE, book |-> book]
            ELSE ladder_loop_NoMerge(entries, i + 1,
                     Append(book, LadderOrder(price, size)), levels, checks)

\* a plausible slip: the depth cap is tested before the price is compared, so
\* the last level stops growing once the book is full
RECURSIVE ladder_loop_CapFirst(_, _, _, _, _)
ladder_loop_CapFirst(entries, i, book, levels, checks) ==
    IF i > Len(entries) THEN [panicked |-> FALSE, book |-> book]
    ELSE
        LET price == entries[i].key.num_quote_ticks_per_base_unit
            size == entries[i].value.num_base_lots
        IN  IF book = <<>>
            THEN ladder_loop_CapFirst(entries, i + 1,
                                      <<LadderOrder(price, size)>>, levels, checks)
            ELSE
                LET last == book[Len(book)]
                    total == last.size_in_base_lots + size
                IN  IF Len(book) = levels
                    THEN [panicked |-> FALSE, book |-> book]
                    ELSE IF last.price_in_ticks = price
                         THEN IF total >= Modulus /\ checks
                              THEN [panicked |-> TRUE, book |-> book]
                              ELSE ladder_loop_CapFirst(entries, i + 1,
                                       [book EXCEPT ![Len(book)].size_in_base_lots =
                                                        total % Modulus],
                                       levels, checks)
                         ELSE ladder_loop_CapFirst(entries, i + 1,
                                  Append(book, LadderOrder(price, size)), levels, checks)

\* a plausible slip: the sizes are added with saturating_add
RECURSIVE ladder_loop_Saturating(_, _, _, _, _)
ladder_loop_Saturating(entries, i, book, levels, checks) ==
    IF i > Len(entries) THEN [panicked |-> FALSE, book |-> book]
    ELSE
        LET price == entries[i].key.num_quote_ticks_per_base_unit
            size == entries[i].value.num_base_lots
        IN  IF book = <<>>
            THEN ladder_loop_Saturating(entries, i + 1,
                                        <<LadderOrder(price, size)>>, levels, checks)
            ELSE
                LET last == book[Len(book)]
                    total == last.size_in_base_lots + size
                IN  IF last.price_in_ticks = price
                    THEN ladder_loop_Saturating(entries, i + 1,
                             [book EXCEPT ![Len(book)].size_in_base_lots =
                                              IF total >= Modulus THEN Modulus - 1 ELSE total],
                             levels, checks)
                    ELSE IF Len(book) = levels
                         THEN [panicked |-> FALSE, book |-> book]
                         ELSE ladder_loop_Saturating(entries, i + 1,
                                  Append(book, LadderOrder(price, size)), levels, checks)

\* the inner loop of get_ladder over one side's entries, from entry i on, with
\* `book` the levels pushed so far.  `last.size_in_base_lots += size` is a u64
\* addition: on overflow it panics in a build with overflow checks (checks) and
\* wraps in a build without.
RECURSIVE ladder_loop(_, _, _, _, _)
ladder_loop(entries, i, book, levels, checks) ==
    IF i > Len(entries) THEN [panicked |-> FALSE, book |-> book]
    ELSE
        LET price == entries[i].key.num_quote_ticks_per_base_unit
            size == entries[i].value.num_base_lots
        IN  IF book = <<>>
            THEN ladder_loop(entries, i + 1, <<LadderOrder(price, size)>>, levels, checks)
            ELSE
                LET last == book[Len(book)]
                    total == last.size_in_base_lots + size
                IN  IF last.price_in_ticks = price
                    THEN IF total >= Modulus /\ checks
                         THEN [panicked |-> TRUE, book |-> book]
                         ELSE ladder_loop(entries, i + 1,
                                  [book EXCEPT ![Len(book)].size_in_base_lots = total % Modulus],
                                  levels, checks)
                    ELSE IF Len(book) = levels
                         THEN [panicked |-> FALSE, book |-> book]
                         ELSE ladder_loop(entries, i + 1,
                                  Append(book, LadderOrder(price, size)), levels, checks)

\* a plausible slip: one vector's length is tested for both sides, so the asks
\* are capped by what the bids left
get_ladder_SharedCap(m, levels, checks) ==
    IF levels = 0
    THEN [panicked |-> FALSE, bids |-> <<>>, asks |-> <<>>]
    ELSE
        LET b == ladder_loop(get_book(m, "Bid"), 1, <<>>, levels, checks)
        IN  IF b.panicked
            THEN [panicked |-> TRUE, bids |-> <<>>, asks |-> <<>>]
            ELSE
                LET a == ladder_loop(get_book(m, "Ask"), 1, <<>>,
                                     levels - Len(b.book), checks)
                IN  IF a.panicked
                    THEN [panicked |-> TRUE, bids |-> <<>>, asks |-> <<>>]
                    ELSE [panicked |-> FALSE, bids |-> b.book, asks |-> a.book]

\* Market::get_ladder: the early return for levels = 0, then the bids, then the asks
get_ladder(m, levels, checks) ==
    IF levels = 0
    THEN [panicked |-> FALSE, bids |-> <<>>, asks |-> <<>>]
    ELSE
        LET b == ladder_loop(get_book(m, "Bid"), 1, <<>>, levels, checks)
        IN  IF b.panicked
            THEN [panicked |-> TRUE, bids |-> <<>>, asks |-> <<>>]
            ELSE
                LET a == ladder_loop(get_book(m, "Ask"), 1, <<>>, levels, checks)
                IN  IF a.panicked
                    THEN [panicked |-> TRUE, bids |-> <<>>, asks |-> <<>>]
                    ELSE [panicked |-> FALSE, bids |-> b.book, asks |-> a.book]

----------------------------------------------------------------------------
(* dispatch.rs: the capacity tuple, the buffer and the three entry points  *)

\* MarketSizeParams
MarketSizeParams(bids_size, asks_size, num_seats) ==
    [bids_size |-> bids_size, asks_size |-> asks_size, num_seats |-> num_seats]

ParamsTuple(p) == <<p.bids_size, p.asks_size, p.num_seats>>

\* size_of::<RedBlackTree<K, V, n>>(): the tree's and the allocator's header
\* words, then n nodes of four u32 registers, a key and a value
SizeOfRedBlackTree(n, key_bytes, value_bytes) == 32 + n * (16 + key_bytes + value_bytes)

\* size_of::<FIFOMarket<b, a, s>>(): six u64 scalars, the bids and asks trees
\* (FIFOOrderId and FIFORestingOrder are two u64 each) and the traders tree (a
\* 32-byte Pubkey and a TraderState of four u64)
SizeOfFIFOMarket(inst) ==
    48 + SizeOfRedBlackTree(inst[1], 16, 16) + SizeOfRedBlackTree(inst[2], 16, 16)
       + SizeOfRedBlackTree(inst[3], 32, 32)

\* Option values of the dispatch: None, Some(handle over the instantiation inst),
\* Some(size), and a fault (panic) of the call
NoInst == <<0, 0, 0>>
None == [kind |-> "None", inst |-> NoInst, mutable |-> FALSE, size |-> 0]
Fault == [kind |-> "Fault", inst |-> NoInst, mutable |-> FALSE, size |-> 0]
SomeHandle(inst, mutable) == [kind |-> "Some", inst |-> inst, mutable |-> mutable, size |-> 0]
SomeSize(size) == [kind |-> "Some", inst |-> NoInst, mutable |-> FALSE, size |-> size]

\* ZeroCopy::load_bytes / load_mut_bytes for FIFOMarket<inst>: a reference to the
\* buffer's memory when its length and alignment suffice, None otherwise
load_bytes(inst, bytes, mutable) ==
    IF bytes.len >= SizeOfFIFOMarket(inst) /\ bytes.aligned
    THEN SomeHandle(inst, mutable)
    ELSE None

\* a plausible slip: the arm of (1024, 1024, 128) is written (1024, 1024, 256)
dispatch_market_mut_ArmTypo(market_size_params, bytes) ==
    LET t == ParamsTuple(market_size_params)
    IN  CASE t = <<512, 512, 256>> -> load_bytes(<<512, 512, 256>>, bytes, TRUE)
          [] t = <<2048, 2048, 4096>> -> load_bytes(<<2048, 2048, 4096>>, bytes, TRUE)
          [] t = <<4096, 4096, 8192>> -> load_bytes(<<4096, 4096, 8192>>, bytes, TRUE)
          [] t = <<1024, 1024, 256>> -> load_bytes(<<1024, 1024, 128>>, bytes, TRUE)
          [] t = <<2048, 2048, 128>> -> load_bytes(<<2048, 2048, 128>>, bytes, TRUE)
          [] t = <<4096, 4096, 128>> -> load_bytes(<<4096, 4096, 128>>, bytes, TRUE)
          [] OTHER -> None

\* dispatch_market_mut: the match on the tuple, `?` on the load, the wrapper
dispatch_market_mut(market_size_params, bytes) ==
    LET t == ParamsTuple(market_size_params)
    IN  CASE t = <<512, 512, 256>> -> load_bytes(<<512, 512, 256>>, bytes, TRUE)
          [] t = <<2048, 2048, 4096>> -> load_bytes(<<2048, 2048, 4096>>, bytes, TRUE)
          [] t = <<4096, 4096, 8192>> -> load_bytes(<<4096, 4096, 8192>>, bytes, TRUE)
          [] t = <<1024, 1024, 128>> -> load_bytes(<<1024, 1024, 128>>, bytes, TRUE)
          [] t = <<2048, 2048, 128>> -> load_bytes(<<2048, 2048, 128>>, bytes, TRUE)
          [] t = <<4096, 4096, 128>> -> load_bytes(<<4096, 4096, 128>>, bytes, TRUE)
          [] OTHER -> None

\* load_with_dispatch_mut
load_with_dispatch_mut(market_size_params, bytes) ==
    dispatch_market_mut(market_size_params, bytes)

\* a plausible slip: the loaded reference is unwrapped instead of passed on with `?`
Unwrap(r) == IF r.kind = "None" THEN Fault ELSE r

dispatch_market_Unwrap(market_size_params, bytes) ==
    LET t == ParamsTuple(market_size_params)
    IN  CASE t = <<512, 512, 256>> -> Unwrap(load_bytes(<<512, 512, 256>>, bytes, FALSE))
          [] t = <<2048, 2048, 4096>> -> Unwrap(load_bytes(<<2048, 2048, 4096>>, bytes, FALSE))
          [] t = <<4096, 4096, 8192>> -> Unwrap(load_bytes(<<4096, 4096, 8192>>, bytes, FALSE))
          [] t = <<1024, 1024, 128>> -> Unwrap(load_bytes(<<1024, 1024, 128>>, bytes, FALSE))
          [] t = <<2048, 2048, 128>> -> Unwrap(load_bytes(<<2048, 2048, 128>>, bytes, FALSE))
          [] t = <<4096, 4096, 128>> -> Unwrap(load_bytes(<<4096, 4096, 128>>, bytes, FALSE))
          [] OTHER -> None

\* a plausible slip: the capacities are compared with those the buffer was
\* written through before the match
dispatch_market_ChecksContent(market_size_params, bytes) ==
    LET t == ParamsTuple(market_size_params)
    IN  CASE bytes.content \notin {NoInst, t} -> None
          [] t = <<512, 512, 256>> -> load_bytes(<<512, 512, 256>>, bytes, FALSE)
          [] t = <<2048, 2048, 4096>> -> load_bytes(<<2048, 2048, 4096>>, bytes, FALSE)
          [] t = <<4096, 4096, 8192>> -> load_bytes(<<4096, 4096, 8192>>, bytes, FALSE)
          [] t = <<1024, 1024, 128>> -> load_bytes(<<1024, 1024, 128>>, bytes, FALSE)
          [] t = <<2048, 2048, 128>> -> load_bytes(<<2048, 2048, 128>>, bytes, FALSE)
          [] t = <<4096, 4096, 128>> -> load_bytes(<<4096, 4096, 128>>, bytes, FALSE)
          [] OTHER -> None

\* dispatch_market: the match on the tuple, `?` on the load, the wrapper
dispatch_market(market_size_params, bytes) ==
    LET t == ParamsTuple(market_size_params)
    IN  CASE t = <<512, 512, 256>> -> load_bytes(<<512, 512, 256>>, bytes, FALSE)
          [] t = <<2048, 2048, 4096>> -> load_bytes(<<2048, 2048, 4096>>, bytes, FALSE)
          [] t = <<4096, 4096, 8192>> -> load_bytes(<<4096, 4096, 8192>>, bytes, FALSE)
          [] t = <<1024, 1024, 128>> -> load_bytes(<<1024, 1024, 128>>, bytes, FALSE)
          [] t = <<2048, 2048, 128>> -> load_bytes(<<2048, 2048, 128>>, bytes, FALSE)
          [] t = <<4096, 4096, 128>> -> load_bytes(<<4096, 4096, 128>>, bytes, FALSE)
          [] OTHER -> None

\* load_with_dispatch
load_with_dispatch(market_size_params, bytes) ==
    dispatch_market(market_size_params, bytes)

\* a plausible slip: the arm of (2048, 2048, 128) takes the size of the
\* (2048, 2048, 4096) instantiation
get_market_size_WrongArm(market_params) ==
    LET t == ParamsTuple(market_params)
    IN  CASE t = <<512, 512, 256>> -> SomeSize(SizeOfFIFOMarket(<<512, 512, 256>>))
          [] t = <<2048, 2048, 4096>> -> SomeSize(SizeOfFIFOMarket(<<2048, 2048, 4096>>))
          [] t = <<4096, 4096, 8192>> -> SomeSize(SizeOfFIFOMarket(<<4096, 4096, 8192>>))
          [] t = <<1024, 1024, 128>> -> SomeSize(SizeOfFIFOMarket(<<1024, 1024, 128>>))
          [] t = <<2048, 2048, 128>> -> SomeSize(SizeOfFIFOMarket(<<2048, 2048, 4096>>))
          [] t = <<4096, 4096, 128>> -> SomeSize(SizeOfFIFOMarket(<<4096, 4096, 128>>))
          [] OTHER -> None

\* get_market_size
get_market_size(market_params) ==
    LET t == ParamsTuple(market_params)
    IN  CASE t = <<512, 512, 256>> -> SomeSize(SizeOfFIFOMarket(<<512, 512, 256>>))
          [] t = <<2048, 2048, 4096>> -> SomeSize(SizeOfFIFOMarket(<<2048, 2048, 4096>>))
          [] t = <<4096, 4096, 8192>> -> SomeSize(SizeOfFIFOMarket(<<4096, 4096, 8192>>))
          [] t = <<1024, 1024, 128>> -> SomeSize(SizeOfFIFOMarket(<<1024, 1024, 128>>))
          [] t = <<2048, 2048, 128>> -> SomeSize(SizeOfFIFOMarket(<<2048, 2048, 128>>))
          [] t = <<4096, 4096, 128>> -> SomeSize(SizeOfFIFOMarket(<<4096, 4096, 128>>))
          [] OTHER -> None

----------------------------------------------------------------------------
(* order_packet.rs: OrderPacket::ImmediateOrCancel and its constructors.   *)
(* An Option<u64> is the empty sequence for None and <<x>> for Some(x).    *)

\* OrderPacket::new_ioc
new_ioc(side, price_in_ticks, num_base_lots, num_quote_lots, min_base_lots_to_fill, min_quote_lots_to_fill, self_trade_behavior, match_limit, client_order_id) ==
    [variant |-> "ImmediateOrCancel",
     side |-> side,
     num_quote_ticks_per_base_unit |-> price_in_ticks,
     num_base_lots |-> num_base_lots,
     num_quote_lots |-> num_quote_lots,
     min_base_lots_to_fill |-> min_base_lots_to_fill,
     min_quote_lots_to_fill |-> min_quote_lots_to_fill,
     self_trade_behavior |-> self_trade_behavior,
     match_limit |-> match_limit,
     client_order_id |-> client_order_id]

\* OrderPacket::new_fok_sell_with_limit_price
new_fok_sell_with_limit_price(target_price_in_ticks, base_lot_budget, self_trade_behavior, match_limit, client_order_id) ==
    new_ioc("Ask", <<target_price_in_ticks>>, base_lot_budget, 0, base_lot_budget, 0,
            self_trade_behavior, match_limit, client_order_id)

\* OrderPacket::new_fok_buy_with_limit_price
new_fok_buy_with_limit_price(target_price_in_ticks, quote_lot_budget, self_trade_behavior, match_limit, client_order_id) ==
    new_ioc("Bid", <<target_price_in_ticks>>, 0, quote_lot_budget, 0, quote_lot_budget,
            self_trade_behavior, match_limit, client_order_id)

\* OrderPacket::new_ioc_sell_with_limit_price
new_ioc_sell_with_limit_price(price_in_ticks, num_base_lots, self_trade_behavior, match_limit, client_order_id) ==
    new_ioc("Ask", <<price_in_ticks>>, num_base_lots, 0, 0, 0,
            self_trade_behavior, match_limit, client_order_id)

\* OrderPacket::new_ioc_buy_with_limit_price
new_ioc_buy_with_limit_price(price_in_ticks, num_quote_lots, self_trade_behavior, match_limit, client_order_id) ==
    new_ioc("Bid", <<price_in_ticks>>, 0, num_quote_lots, 0, 0,
            self_trade_behavior, match_limit, client_order_id)

\* OrderPacket::new_fok_buy_with_slippage_with_client_order_id
new_fok_buy_with_slippage_with_client_order_id(quote_lots_in, min_base_lots_out, client_order_id) ==
    new_ioc("Bid", <<>>, 0, quote_lots_in, min_base_lots_out, quote_lots_in,
            "CancelProvide", <<>>, client_order_id)

\* OrderPacket::new_fok_sell_with_slippage_with_client_order_id
new_fok_sell_with_slippage_with_client_order_id(base_lots_in, min_quote_lots_out, client_order_id) ==
    new_ioc("Ask", <<>>, base_lots_in, 0, base_lots_in, min_quote_lots_out,
            "CancelProvide", <<>>, client_order_id)

\* a plausible slip: the quote budget is not repeated as the minimum to fill
new_fok_buy_with_slippage_NoMinimum(quote_lots_in, min_base_lots_out) ==
    new_ioc("Bid", <<>>, 0, quote_lots_in, min_base_lots_out, 0, "CancelProvide", <<>>, 0)

\* OrderPacket::new_fok_buy_with_slippage
new_fok_buy_with_slippage(quote_lots_in, min_base_lots_out) ==
    new_ioc("Bid", <<>>, 0, quote_lots_in, min_base_lots_out, quote_lots_in,
            "CancelProvide", <<>>, 0)

\* OrderPacket::new_fok_sell_with_slippage
new_fok_sell_with_slippage(base_lots_in, min_quote_lots_out) ==
    new_ioc("Ask", <<>>, base_lots_in, 0, base_lots_in, min_quote_lots_out,
            "CancelProvide", <<>>, 0)

\* OrderPacket::new_ioc_buy_with_slippage
new_ioc_buy_with_slippage(quote_lots_in, min_base_lots_out) ==
    new_ioc("Bid", <<>>, 0, quote_lots_in, min_base_lots_out, 0, "CancelProvide", <<>>, 0)

\* OrderPacket::new_ioc_sell_with_slippage
new_ioc_sell_with_slippage(base_lots_in, min_quote_lots_out) ==
    new_ioc("Ask", <<>>, base_lots_in, 0, 0, min_quote_lots_out, "CancelProvide", <<>>, 0)

----------------------------------------------------------------------------
(* instructions.rs: the PhoenixInstruction variants with the accounts they *)
(* declare, and the builders of client instructions.  A Pubkey is a record *)
(* [kind, a, b]: a key handed in by the caller, a well-known program id,   *)
(* or an address derived from two keys.                                    *)

Pubkey(n) == [kind |-> "key", a |-> n, b |-> 0]
id == [kind |-> "phoenix_program", a |-> 0, b |-> 0]
phoenix_log_authority_id == [kind |-> "log_authority", a |-> 0, b |-> 0]
spl_token_id == [kind |-> "token_program", a |-> 0, b |-> 0]
system_program_id == [kind |-> "system_program", a |-> 0, b |-> 0]

\* get_vault_address: the program address of ["vault", market, mint]
get_vault_address(market_key, mint) == [kind |-> "vault", a |-> market_key.a, b |-> mint.a]

\* get_seat_address: the program address of ["seat", market, trader]
get_seat_address(market_key, trader) == [kind |-> "seat", a |-> market_key.a, b |-> trader.a]

\* spl_associated_token_account::get_associated_token_address
get_associated_token_address(wallet, mint) == [kind |-> "ata", a |-> wallet.a, b |-> mint.a]

\* AccountMeta::new: a writable account
AccountMeta_new(pubkey, is_signer) ==
    [pubkey |-> pubkey, is_signer |-> is_signer, is_writable |-> TRUE]

\* AccountMeta::new_readonly
AccountMeta_new_readonly(pubkey, is_signer) ==
    [pubkey |-> pubkey, is_signer |-> is_signer, is_writable |-> FALSE]

\* one #[account(i, writable, signer, name = ...)] attribute
account(name, writable, signer) == [name |-> name, writable |-> writable, signer |-> signer]

\* the attributes shared by the variants that move tokens without a seat
DeclaredWithTokens ==
    <<account("phoenix_program", FALSE, FALSE), account("log_authority", FALSE, FALSE),
      account("market", TRUE, FALSE), account("trader", TRUE, TRUE),
      account("base_account", TRUE, FALSE), account("quote_account", TRUE, FALSE),
      account("base_vault", TRUE, FALSE), account("quote_vault", TRUE, FALSE),
      account("token_program", FALSE, FALSE)>>

\* the attributes shared by the variants that move tokens for a seated trader
DeclaredWithSeatAndTokens ==
    <<account("phoenix_program", FALSE, FALSE), account("log_authority", FALSE, FALSE),
      account("market", TRUE, FALSE), account("trader", TRUE, TRUE),
      account("seat", FALSE, FALSE),
      account("base_account", TRUE, FALSE), account("quote_account", TRUE, FALSE),
      account("base_vault", TRUE, FALSE), account("quote_vault", TRUE, FALSE),
      account("token_program", FALSE, FALSE)>>

\* the attributes shared by the free-funds variants that need a seat
DeclaredWithSeat ==
    <<account("phoenix_program", FALSE, FALSE), account("log_authority", FALSE, FALSE),
      account("market", TRUE, FALSE), account("trader", TRUE, TRUE),
      account("seat", FALSE, FALSE)>>

\* the attributes shared by the free-funds variants that need no seat
DeclaredBare ==
    <<account("phoenix_program", FALSE, FALSE), account("log_authority", FALSE, FALSE),
      account("market", TRUE, FALSE), account("trader", TRUE, TRUE)>>

\* enum PhoenixInstruction: each variant's discriminant and #[account] list
PhoenixInstruction ==
    [Swap |-> [discriminant |-> 0, accounts |-> DeclaredWithTokens],
     SwapWithFreeFunds |-> [discriminant |-> 1, accounts |-> DeclaredWithSeat],
     PlaceLimitOrder |-> [discriminant |-> 2, accounts |-> DeclaredWithSeatAndTokens],
     PlaceLimitOrderWithFreeFunds |-> [discriminant |-> 3, accounts |-> DeclaredWithSeat],
     ReduceOrder |-> [discriminant |-> 4, accounts |-> DeclaredWithTokens],
     ReduceOrderWithFreeFunds |-> [discriminant |-> 5, accounts |-> DeclaredBare],
     CancelAllOrders |-> [discriminant |-> 6, accounts |-> DeclaredWithTokens],
     CancelAllOrdersWithFreeFunds |-> [discriminant |-> 7, accounts |-> DeclaredBare],
     CancelUpTo |-> [discriminant |-> 8, accounts |-> DeclaredWithTokens],
     CancelUpToWithFreeFunds |-> [discriminant |-> 9, accounts |-> DeclaredBare],
     CancelMultipleOrdersById |-> [discriminant |-> 10, accounts |-> DeclaredWithTokens],
     CancelMultipleOrdersByIdWithFreeFunds |->
         [discriminant |-> 11, accounts |-> DeclaredBare],
     WithdrawFunds |-> [discriminant |-> 12, accounts |-> DeclaredWithTokens],
     DepositFunds |-> [discriminant |-> 13, accounts |-> DeclaredWithSeatAndTokens],
     RequestSeat |->
         [discriminant |-> 14,
          accounts |->
              <<account("phoenix_program", FALSE, FALSE),
                account("log_authority", FALSE, FALSE),
                account("market", TRUE, FALSE), account("payer", TRUE, TRUE),
                account("seat", TRUE, FALSE), account("system_program", FALSE, FALSE)>>],
     Log |-> [discriminant |-> 15, accounts |-> <<account("log_authority", FALSE, TRUE)>>],
     PlaceMultiplePostOnlyOrders |->
         [discriminant |-> 16, accounts |-> DeclaredWithSeatAndTokens],
     PlaceMultiplePostOnlyOrdersWithFreeFunds |->
         [discriminant |-> 17, accounts |-> DeclaredWithSeat]]

\* PhoenixInstruction::to_vec
to_vec(variant) == <<PhoenixInstruction[variant].discriminant>>

Instruction(accounts, data) == [program_id |-> id, accounts |-> accounts, data |-> data]

\* the account vector written out in the two templates and in the Swap arm
TokenAccounts(market_key, trader, base_account, quote_account, base, quote) ==
    <<AccountMeta_new_readonly(id, FALSE),
      AccountMeta_new_readonly(phoenix_log_authority_id, FALSE),
      AccountMeta_new(market_key, FALSE),
      AccountMeta_new(trader, TRUE),
      AccountMeta_new(base_account, FALSE),
      AccountMeta_new(quote_account, FALSE),
      AccountMeta_new(get_vault_address(market_key, base), FALSE),
      AccountMeta_new(get_vault_address(market_key, quote), FALSE),
      AccountMeta_new_readonly(spl_token_id, FALSE)>>

\* the account vector of the order builders that pass the seat read-only
SeatAndTokenAccounts(market_key, trader, base_account, quote_account, base, quote) ==
    <<AccountMeta_new_readonly(id, FALSE),
      AccountMeta_new_readonly(phoenix_log_authority_id, FALSE),
      AccountMeta_new(market_key, FALSE),
      AccountMeta_new(trader, TRUE),
      AccountMeta_new_readonly(get_seat_address(market_key, trader), FALSE),
      AccountMeta_new(base_account, FALSE),
      AccountMeta_new(quote_account, FALSE),
      AccountMeta_new(get_vault_address(market_key, base), FALSE),
      AccountMeta_new(get_vault_address(market_key, quote), FALSE),
      AccountMeta_new_readonly(spl_token_id, FALSE)>>

\* the account vector of the free-funds order builders
SeatAccounts(market_key, trader) ==
    <<AccountMeta_new_readonly(id, FALSE),
      AccountMeta_new_readonly(phoenix_log_authority_id, FALSE),
      AccountMeta_new(market_key, FALSE),
      AccountMeta_new(trader, TRUE),
      AccountMeta_new_readonly(get_seat_address(market_key, trader), FALSE)>>

\* the account vector of the free-funds cancel and reduce builders
BareAccounts(market_key, trader) ==
    <<AccountMeta_new_readonly(id, FALSE),
      AccountMeta_new_readonly(phoenix_log_authority_id, FALSE),
      AccountMeta_new(market_key, FALSE),
      AccountMeta_new(trader, TRUE)>>

\* create_new_order_instruction_with_custom_token_accounts; take_only is
\* what order_type.is_take_only() answered, order_data the packet's bytes
create_new_order_instruction_with_custom_token_accounts(market_key, trader, base_account, quote_account, base, quote, take_only, order_data) ==
    IF take_only
    THEN Instruction(TokenAccounts(market_key, trader, base_account, quote_account,
                                   base, quote),
                     to_vec("Swap") \o order_data)
    ELSE Instruction(SeatAndTokenAccounts(market_key, trader, base_account, quote_account,
                                          base, quote),
                     to_vec("PlaceLimitOrder") \o order_data)

\* create_new_order_instruction
create_new_order_instruction(market_key, trader, base, quote, take_only, order_data) ==
    create_new_order_instruction_with_custom_token_accounts(
        market_key, trader, get_associated_token_address(trader, base),
        get_associated_token_address(trader, quote), base, quote, take_only, order_data)

\* create_new_order_with_free_funds_instruction
create_new_order_with_free_funds_instruction(market_key, trader, take_only, order_data) ==
    Instruction(SeatAccounts(market_key, trader),
                (IF take_only THEN to_vec("SwapWithFreeFunds")
                              ELSE to_vec("PlaceLimitOrderWithFreeFunds")) \o order_data)

\* create_new_multiple_order_instruction_with_custom_token_accounts
create_new_multiple_order_instruction_with_custom_token_accounts(market_key, trader, base_account, quote_account, base, quote, order_data) ==
    Instruction(SeatAndTokenAccounts(market_key, trader, base_account, quote_account,
                                     base, quote),
                to_vec("PlaceMultiplePostOnlyOrders") \o order_data)

\* create_new_multiple_order_instruction
create_new_multiple_order_instruction(market_key, trader, base, quote, order_data) ==
    create_new_multiple_order_instruction_with_custom_token_accounts(
        market_key, trader, get_associated_token_address(trader, base),
        get_associated_token_address(trader, quote), base, quote, order_data)

\* create_new_multiple_order_with_free_funds_instruction
create_new_multiple_order_with_free_funds_instruction(market_key, trader, order_data) ==
    Instruction(SeatAccounts(market_key, trader),
                to_vec("PlaceMultiplePostOnlyOrdersWithFreeFunds") \o order_data)

\* create_cancel_all_order_with_free_funds_instruction
create_cancel_all_order_with_free_funds_instruction(market_key, trader) ==
    Instruction(BareAccounts(market_key, trader), to_vec("CancelAllOrdersWithFreeFunds"))

\* create_cancel_up_to_with_free_funds_instruction
create_cancel_up_to_with_free_funds_instruction(market_key, trader, ix_data) ==
    Instruction(BareAccounts(market_key, trader),
                to_vec("CancelUpToWithFreeFunds") \o ix_data)

\* create_cancel_multiple_orders_by_id_with_free_funds_instruction
create_cancel_multiple_orders_by_id_with_free_funds_instruction(market_key, trader, ix_data) ==
    Instruction(BareAccounts(market_key, trader),
                to_vec("CancelMultipleOrdersByIdWithFreeFunds") \o ix_data)

\* create_reduce_order_with_free_funds_instruction
create_reduce_order_with_free_funds_instruction(market_key, trader, ix_data) ==
    Instruction(BareAccounts(market_key, trader),
                to_vec("ReduceOrderWithFreeFunds") \o ix_data)

\* create_deposit_funds_instruction_with_custom_token_accounts: the seat is
\* passed with AccountMeta::new
create_deposit_funds_instruction_with_custom_token_accounts(market_key, trader, seat, base_account, quote_account, base, quote, ix_data) ==
    Instruction(<<AccountMeta_new_readonly(id, FALSE),
                  AccountMeta_new_readonly(phoenix_log_authority_id, FALSE),
                  AccountMeta_new(market_key, FALSE),
                  AccountMeta_new(trader, TRUE),
                  AccountMeta_new(seat, FALSE),
                  AccountMeta_new(base_account, FALSE),
                  AccountMeta_new(quote_account, FALSE),
                  AccountMeta_new(get_vault_address(market_key, base), FALSE),
                  AccountMeta_new(get_vault_address(market_key, quote), FALSE),
                  AccountMeta_new_readonly(spl_token_id, FALSE)>>,
                to_vec("DepositFunds") \o ix_data)

\* create_deposit_funds_instruction
create_deposit_funds_instruction(market_key, trader, base, quote, ix_data) ==
    create_deposit_funds_instruction_with_custom_token_accounts(
        market_key, trader, get_seat_address(market_key, trader),
        get_associated_token_address(trader, base),
        get_associated_token_address(trader, quote), base, quote, ix_data)

\* _phoenix_instruction_template with params = Some(..)
phoenix_instruction_template(market_key, trader, base_account, quote_account, base, quote, ix_id, ix_data) ==
    Instruction(TokenAccounts(market_key, trader, base_account, quote_account, base, quote),
                to_vec(ix_id) \o ix_data)

\* _phoenix_instruction_template_no_param
phoenix_instruction_template_no_param(market_key, trader, base_account, quote_account, base, quote, ix_id) ==
    Instruction(TokenAccounts(market_key, trader, base_account, quote_account, base, quote),
                to_vec(ix_id))

\* create_reduce_order_instruction_with_custom_token_accounts
create_reduce_order_instruction_with_custom_token_accounts(market_key, trader, base_account, quote_account, base, quote, ix_data) ==
    phoenix_instruction_template(market_key, trader, base_account, quote_account,
                                 base, quote, "ReduceOrder", ix_data)

\* reduce_order_instruction
reduce_order_instruction(market_key, trader, base, quote, ix_data) ==
    create_reduce_order_instruction_with_custom_token_accounts(
        market_key, trader, get_associated_token_address(trader, base),
        get_associated_token_address(trader, quote), base, quote, ix_data)

\* create_cancel_all_orders_instruction_with_custom_token_accounts
create_cancel_all_orders_instruction_with_custom_token_accounts(market_key, trader, base_account, quote_account, base, quote) ==
    phoenix_instruction_template_no_param(market_key, trader, base_account, quote_account,
                                          base, quote, "CancelAllOrders")

\* create_cancel_all_orders_instruction
create_cancel_all_orders_instruction(market_key, trader, base, quote) ==
    create_cancel_all_orders_instruction_with_custom_token_accounts(
        market_key, trader, get_associated_token_address(trader, base),
        get_associated_token_address(trader, quote), base, quote)

\* create_cancel_up_to_instruction_with_custom_token_accounts
create_cancel_up_to_instruction_with_custom_token_accounts(market_key, trader, base_account, quote_account, base, quote, ix_data) ==
    phoenix_instruction_template(market_key, trader, base_account, quote_account,
                                 base, quote, "CancelUpTo", ix_data)

\* create_cancel_up_to_instruction
create_cancel_up_to_instruction(market_key, trader, base, quote, ix_data) ==
    create_cancel_up_to_instruction_with_custom_token_accounts(
        market_key, trader, get_associated_token_address(trader, base),
        get_associated_token_address(trader, quote), base, quote, ix_data)

\* create_cancel_multiple_orders_by_id_instruction_with_custom_token_accounts
create_cancel_multiple_orders_by_id_instruction_with_custom_token_accounts(market_key, trader, base_account, quote_account, base, quote, ix_data) ==
    phoenix_instruction_template(market_key, trader, base_account, quote_account,
                                 base, quote, "CancelMultipleOrdersById", ix_data)

\* create_cancel_multiple_orders_by_id_instruction
create_cancel_multiple_orders_by_id_instruction(market_key, trader, base, quote, ix_data) ==
    create_cancel_multiple_orders_by_id_instruction_with_custom_token_accounts(
        market_key, trader, get_associated_token_address(trader, base),
        get_associated_token_address(trader, quote), base, quote, ix_data)

\* create_withdraw_funds_with_custom_amounts_instruction_with_custom_token_accounts
create_withdraw_funds_with_custom_amounts_instruction_with_custom_token_accounts(market_key, trader, base_account, quote_account, base, quote, ix_data) ==
    phoenix_instruction_template(market_key, trader, base_account, quote_account,
                                 base, quote, "WithdrawFunds", ix_data)

\* create_withdraw_funds_with_custom_amounts_instruction
create_withdraw_funds_with_custom_amounts_instruction(market_key, trader, base, quote, ix_data) ==
    create_withdraw_funds_with_custom_amounts_instruction_with_custom_token_accounts(
        market_key, trader, get_associated_token_address(trader, base),
        get_associated_token_address(trader, quote), base, quote, ix_data)

\* the bytes of WithdrawParams { quote_lots_to_withdraw: None, base_lots_to_withdraw: None }
WithdrawAll == <<0, 0>>

\* create_withdraw_funds_instruction_with_custom_token_accounts
create_withdraw_funds_instruction_with_custom_token_accounts(market_key, trader, base_account, quote_account, base, quote) ==
    phoenix_instruction_template(market_key, trader, base_account, quote_account,
                                 base, quote, "WithdrawFunds", WithdrawAll)

\* create_withdraw_funds_instruction
create_withdraw_funds_instruction(market_key, trader, base, quote) ==
    create_withdraw_funds_instruction_with_custom_token_accounts(
        market_key, trader, get_associated_token_address(trader, base),
        get_associated_token_address(trader, quote), base, quote)

\* create_request_seat_instruction
create_request_seat_instruction(payer, market_key) ==
    Instruction(<<AccountMeta_new_readonly(id, FALSE),
                  AccountMeta_new_readonly(phoenix_log_authority_id, FALSE),
                  AccountMeta_new(market_key, FALSE),
                  AccountMeta_new(payer, TRUE),
                  AccountMeta_new(get_seat_address(market_key, payer), FALSE),
                  AccountMeta_new_readonly(system_program_id, FALSE)>>,
                to_vec("RequestSeat"))

----------------------------------------------------------------------------
(* State                                                                   *)

VARIABLES
    keys,       \* three FIFOOrderId values handed to the comparator
    kpc,        \* "init", "decoded" or "compared"
    side_out,   \* side_out[i]: the side decoded from keys[i], once decoded
    cmp_out,    \* cmp_out[<<i, j>>]: cmp(keys[i], keys[j]), once compared
    market,     \* the FIFOMarket record: scalar fields, bids, asks, traders
    overflow_checks, \* whether the build panics on integer overflow (else it wraps)
    ret,        \* the last operation on the market and what it returned
    arrival,    \* arrival[k]: the market counter the resting key k arrived with
    params,     \* the MarketSizeParams handed to the dispatch
    bytes,      \* the buffer handed to the dispatch: its length and alignment
    dret,       \* what get_market_size and the two loads returned, once called
    tkind,      \* which tree of the market the arena is: "Bid", "Ask" or "Pubkey"
    arena,      \* the arena: root, size, free list head and the slots
    tret,       \* the last operation on the arena and what it returned
    packet,     \* the OrderPacket constructor called and the packet it returned
    ix          \* the instruction builder called and the Instruction it returned

keyVars == <<keys, kpc, side_out, cmp_out>>
marketVars == <<market, overflow_checks, ret, arrival>>
dispatchVars == <<params, bytes, dret>>
treeVars == <<tkind, arena, tret>>
clientVars == <<packet, ix>>
vars == <<keys, kpc, side_out, cmp_out, market, overflow_checks, ret, arrival,
          params, bytes, dret, tkind, arena, tret, packet, ix>>
\* what the steps on the keys, on the market, of the dispatch and on the arena
\* leave alone
keyOthers == <<marketVars, dispatchVars, treeVars, clientVars>>
marketOthers == <<keyVars, dispatchVars, treeVars, clientVars>>
dispatchOthers == <<keyVars, marketVars, treeVars, clientVars>>
treeOthers == <<keyVars, marketVars, dispatchVars, clientVars>>
clientOthers == <<keyVars, marketVars, dispatchVars, treeVars>>

KeyIdx == 1 .. 3
AllKeys == {FIFOOrderId(p, s) : p \in Prices, s \in U64}
NoResult == "none"

Sides == {"Bid", "Ask"}
\* prices and sizes of arriving orders; two orders of TopBit lots overflow a u64
OrderPrices == 1 .. MaxPrice
OrderSizes == {1, TopBit}
\* the identities that ask for a seat, and the capacity of the trader registry
Pubkeys == {1}
NUM_SEATS == Cardinality(Pubkeys)
NoArrival == [k \in {} |-> 0]

\* FIFOMarket::default(): zeroed scalars and three empty trees
FIFOMarketDefault ==
    [base_lots_per_base_unit |-> 0,
     quote_lots_per_tick |-> 0,
     order_sequence_number |-> 0,
     taker_fee_bps |-> 0,
     collected_adjusted_quote_lot_fees |-> 0,
     unclaimed_adjusted_quote_lot_fees |-> 0,
     bids |-> <<>>,
     asks |-> <<>>,
     traders |-> <<>>]

KeyIdle ==
    /\ keys = [i \in KeyIdx |-> FIFOOrderId(0, 0)]
    /\ kpc = "init"
    /\ side_out = NoResult
    /\ cmp_out = NoResult

MarketIdle ==
    /\ market = FIFOMarketDefault
    /\ overflow_checks = FALSE
    /\ ret = [op |-> "none"]
    /\ arrival = NoArrival

\* the six instantiations the dispatch knows
KnownInstantiations ==
    {<<512, 512, 256>>, <<2048, 2048, 4096>>, <<4096, 4096, 8192>>,
     <<1024, 1024, 128>>, <<2048, 2048, 128>>, <<4096, 4096, 128>>}
\* capacities the tuples are drawn from, and the lengths of the buffers: none,
\* and for each instantiation one byte short, exact and one word over
ParamValues == {1, 128, 256, 512, 1024, 2048, 4096, 8192}
BufferLens ==
    {0} \cup {SizeOfFIFOMarket(inst) + d : inst \in KnownInstantiations, d \in {-1, 0, 8}}
\* what the bytes of a buffer hold: zeros, or a market written through the
\* instantiation named
BufferContents == {NoInst, <<512, 512, 256>>}
NotCalled == [kind |-> "NotCalled", inst |-> NoInst, mutable |-> FALSE, size |-> 0]
NoCalls == [size |-> NotCalled, load |-> NotCalled, load_mut |-> NotCalled]

DispatchIdle ==
    /\ params = MarketSizeParams(1, 1, 1)
    /\ bytes = [len |-> 0, aligned |-> TRUE, content |-> NoInst]
    /\ dret = NoCalls

\* the trees of a market, and the Ord each is kept under
TreeKinds == {"Bid", "Ask", "Pubkey"}
OrdKind(tk) == IF tk = "Pubkey" THEN "Pubkey" ELSE "FIFOOrderId"
\* the keys offered to a tree, one more than it has slots: identities for the
\* registry, and for a book keys of its side that mix prices and arrivals
KeyAt(tk, i) ==
    IF tk = "Pubkey" THEN i + 1
    ELSE FIFOOrderId(1 + (i % MaxPrice), OrderSequenceField(tk, i \div MaxPrice))
TreeUniverse(tk) == {KeyAt(tk, i) : i \in 0 .. MAX_SIZE}
\* the values offered: each key comes with a value of its own, and one key
\* comes with a second value as well, for the insert that replaces
ValueAt(tk, i, again) ==
    IF tk = "Pubkey"
    THEN [TraderStateDefault EXCEPT !.base_lots_free = i + 1, !.base_lots_locked = again]
    ELSE FIFORestingOrder(i + 1, 1 + again)
TreeInputs(tk) ==
    {<<KeyAt(tk, i), ValueAt(tk, i, 0)>> : i \in 0 .. MAX_SIZE}
        \cup {<<KeyAt(tk, 1), ValueAt(tk, 1, 1)>>}
\* the zeroed key and value of an unused slot
ZeroKey(tk) == IF tk = "Pubkey" THEN 0 ELSE FIFOOrderId(0, 0)
ZeroValue(tk) == IF tk = "Pubkey" THEN TraderStateDefault ELSE FIFORestingOrder(0, 0)
EmptyTree(tk) == RedBlackTreeDefault(ZeroKey(tk), ZeroValue(tk))
NoTreeCall(tk) ==
    [op |-> "none", key |-> ZeroKey(tk), ok |-> FALSE, value |-> <<>>, addr |-> <<>>,
     relinked |-> {}]

TreeIdle ==
    /\ tkind = "Pubkey"
    /\ arena = EmptyTree("Pubkey")
    /\ tret = NoTreeCall("Pubkey")

\* the arguments offered to the OrderPacket constructors
LotValues == {0, 1, 2}
SelfTradeBehaviors == {"Abort", "CancelProvide", "DecrementTake"}
MatchLimits == {<<>>, <<1>>}
ClientOrderIds == {0, 1}
NoPacket == [call |-> "none"]
NoInstruction == [call |-> "none"]

ClientIdle ==
    /\ packet = NoPacket
    /\ ix = NoInstruction

----------------------------------------------------------------------------
(* The comparator and the side decoder applied to every triple of keys     *)

InitKey ==
    /\ keys \in [KeyIdx -> AllKeys]
    /\ kpc = "init"
    /\ side_out = NoResult
    /\ cmp_out = NoResult
    /\ MarketIdle
    /\ DispatchIdle
    /\ TreeIdle
    /\ ClientIdle

DecodeSides ==
    /\ kpc = "init"
    /\ side_out' = [i \in KeyIdx |-> from_order_sequence_number(keys[i].order_sequence_number)]
    /\ kpc' = "decoded"
    /\ UNCHANGED <<keys, cmp_out>>
    /\ UNCHANGED keyOthers

CompareKeys ==
    /\ kpc = "decoded"
    /\ cmp_out' = [ij \in KeyIdx \X KeyIdx |-> cmp(keys[ij[1]], keys[ij[2]])]
    /\ kpc' = "compared"
    /\ UNCHANGED <<keys, side_out>>
    /\ UNCHANGED keyOthers

NextKey == DecodeSides \/ CompareKeys

SpecKey == InitKey /\ [][NextKey]_vars

----------------------------------------------------------------------------
(* The market: seats granted, orders arriving and leaving, the ladder read *)

Init ==
    /\ market = FIFOMarketDefault
    /\ overflow_checks \in BOOLEAN
    /\ ret = [op |-> "none"]
    /\ arrival = NoArrival
    /\ KeyIdle
    /\ DispatchIdle
    /\ TreeIdle
    /\ ClientIdle

\* a seat is granted: the trader enters the registry with a zeroed state
RegisterTrader(trader) ==
    /\ trader \notin TreeKeys(market.traders)
    /\ LET r == TreeInsert(market.traders, NUM_SEATS, "Pubkey", trader, TraderStateDefault)
       IN  /\ r.ok
           /\ market' = [market EXCEPT !.traders = r.tree]
    /\ ret' = [op |-> "register"]
    /\ UNCHANGED <<overflow_checks, arrival>>
    /\ UNCHANGED marketOthers

\* an order of a seated trader comes to rest: its key takes the market counter
\* (inverted for a bid), the order enters its side's tree with the trader's
\* registry handle as trader_index, and the counter advances
PlaceOrder(side, price, size, trader) ==
    /\ trader \in TreeKeys(market.traders)
    /\ market.order_sequence_number < MaxArrivals
    /\ market.order_sequence_number < TopBit
    /\ LET c == market.order_sequence_number
           key == FIFOOrderId(price, OrderSequenceField(side, c))
           order == FIFORestingOrder(trader, size)
           r == IF side = "Bid"
                THEN TreeInsert(market.bids, BIDS_SIZE, "FIFOOrderId", key, order)
                ELSE TreeInsert(market.asks, ASKS_SIZE, "FIFOOrderId", key, order)
       IN  /\ r.ok
           /\ market' = IF side = "Bid"
                        THEN [market EXCEPT !.bids = r.tree, !.order_sequence_number = c + 1]
                        ELSE [market EXCEPT !.asks = r.tree, !.order_sequence_number = c + 1]
           /\ arrival' = (key :> c) @@ arrival
    /\ ret' = [op |-> "place"]
    /\ UNCHANGED overflow_checks
    /\ UNCHANGED marketOthers

\* a resting order is filled or cancelled in full and leaves its side's tree
RemoveOrder(side, key) ==
    /\ key \in TreeKeys(get_book(market, side))
    /\ market' = IF side = "Bid"
                 THEN [market EXCEPT !.bids = TreeRemove(market.bids, key)]
                 ELSE [market EXCEPT !.asks = TreeRemove(market.asks, key)]
    /\ arrival' = [k \in DOMAIN arrival \ {key} |-> arrival[k]]
    /\ ret' = [op |-> "remove"]
    /\ UNCHANGED overflow_checks
    /\ UNCHANGED marketOthers

\* a plausible slip: the walk takes the best bid off the book as it reads it
GetLadder_Consuming(levels) ==
    /\ ret' = [op |-> "get_ladder", levels |-> levels,
               ladder |-> get_ladder(market, levels, overflow_checks)]
    /\ market' = [market EXCEPT !.bids = IF market.bids = <<>> THEN <<>> ELSE Tail(market.bids)]
    /\ UNCHANGED <<overflow_checks, arrival>>
    /\ UNCHANGED marketOthers

\* Market::get_ladder(&self, levels): the market is read, the ladder returned
GetLadder(levels) ==
    /\ ret' = [op |-> "get_ladder", levels |-> levels,
               ladder |-> get_ladder(market, levels, overflow_checks)]
    /\ UNCHANGED <<market, overflow_checks, arrival>>
    /\ UNCHANGED marketOthers

Next ==
    \/ \E trader \in Pubkeys : RegisterTrader(trader)
    \/ \E side \in Sides, price \in OrderPrices, size \in OrderSizes, trader \in Pubkeys :
           PlaceOrder(side, price, size, trader)
    \/ \E side \in Sides, key \in AllKeys : RemoveOrder(side, key)
    \/ \E levels \in 0 .. MaxLevels : GetLadder(levels)

Spec == Init /\ [][Next]_vars

----------------------------------------------------------------------------
(* The dispatch: every tuple and buffer handed to the three entry points   *)

InitDispatch ==
    /\ params \in {MarketSizeParams(b, a, n) : b \in ParamValues, a \in ParamValues,
                                                n \in ParamValues}
    /\ bytes \in [len : BufferLens, aligned : BOOLEAN, content : BufferContents]
    /\ dret = NoCalls
    /\ KeyIdle
    /\ MarketIdle
    /\ TreeIdle
    /\ ClientIdle

GetMarketSize ==
    /\ dret.size = NotCalled
    /\ dret' = [dret EXCEPT !.size = get_market_size(params)]
    /\ UNCHANGED <<params, bytes>>
    /\ UNCHANGED dispatchOthers

LoadWithDispatch ==
    /\ dret.load = NotCalled
    /\ dret' = [dret EXCEPT !.load = load_with_dispatch(params, bytes)]
    /\ UNCHANGED <<params, bytes>>
    /\ UNCHANGED dispatchOthers

LoadWithDispatchMut ==
    /\ dret.load_mut = NotCalled
    /\ dret' = [dret EXCEPT !.load_mut = load_with_dispatch_mut(params, bytes)]
    /\ UNCHANGED <<params, bytes>>
    /\ UNCHANGED dispatchOthers

NextDispatch == GetMarketSize \/ LoadWithDispatch \/ LoadWithDispatchMut

SpecDispatch == InitDispatch /\ [][NextDispatch]_vars

----------------------------------------------------------------------------
(* One ordered map, slot by slot: entries inserted and removed, and the    *)
(* registry's two reads                                                    *)

InitTree ==
    /\ tkind \in TreeKinds
    /\ arena = EmptyTree(tkind)
    /\ tret = NoTreeCall(tkind)
    /\ KeyIdle
    /\ MarketIdle
    /\ DispatchIdle
    /\ ClientIdle

\* the slots that hold an entry before and after a step and hang under another
\* parent after it
Relinked(before, after) ==
    {i \in OccupiedSlots(before) \cap OccupiedSlots(after) :
       before.nodes[i].parent # after.nodes[i].parent}

\* insert(key, value) on the tree
Insert(key, value) ==
    /\ LET r == insert(arena, OrdKind(tkind), key, value)
       IN  /\ arena' = r.tree
           /\ tret' = [op |-> "insert", key |-> key, ok |-> r.ok, value |-> <<value>>,
                       addr |-> IF r.ok THEN <<r.addr>> ELSE <<>>,
                       relinked |-> Relinked(arena, r.tree)]
    /\ UNCHANGED tkind
    /\ UNCHANGED treeOthers

\* remove(key) on the tree
Remove(key) ==
    /\ LET r == remove(arena, OrdKind(tkind), key)
       IN  /\ arena' = r.tree
           /\ tret' = [op |-> "remove", key |-> key, ok |-> r.value # <<>>,
                       value |-> r.value, addr |-> <<>>,
                       relinked |-> Relinked(arena, r.tree)]
    /\ UNCHANGED tkind
    /\ UNCHANGED treeOthers

\* Market::get_trader_address(trader), the tree being the registry
GetTraderAddress(trader) ==
    /\ tkind = "Pubkey"
    /\ LET r == get_trader_address(arena, trader)
       IN  tret' = [op |-> "get_trader_address", key |-> trader, ok |-> r # <<>>,
                    value |-> <<>>, addr |-> r, relinked |-> {}]
    /\ UNCHANGED <<tkind, arena>>
    /\ UNCHANGED treeOthers

\* Market::get_trader_state(trader), the tree being the registry
GetTraderState(trader) ==
    /\ tkind = "Pubkey"
    /\ LET r == get_trader_state(arena, trader)
       IN  tret' = [op |-> "get_trader_state", key |-> trader, ok |-> r # <<>>,
                    value |-> r, addr |-> <<>>, relinked |-> {}]
    /\ UNCHANGED <<tkind, arena>>
    /\ UNCHANGED treeOthers

NextTree ==
    \/ \E input \in TreeInputs(tkind) : Insert(input[1], input[2])
    \/ \E key \in TreeUniverse(tkind) : Remove(key)
    \/ \E trader \in TreeUniverse(tkind) : GetTraderAddress(trader)
    \/ \E trader \in TreeUniverse(tkind) : GetTraderState(trader)

SpecTree == InitTree /\ [][NextTree]_vars

----------------------------------------------------------------------------
(* The capability surface: a market whose three trees are held slot by     *)
(* slot, and the six reads of impl Market for FIFOMarket                   *)

\* the tree of kind tk after its first n keys were inserted
RECURSIVE Filled(_, _)
Filled(tk, n) ==
    IF n = 0 THEN EmptyTree(tk)
    ELSE insert(Filled(tk, n - 1), OrdKind(tk), KeyAt(tk, n - 1), ValueAt(tk, n - 1, 0)).tree

ScalarValues == {1, 2}

InitSurface ==
    /\ \E nb \in 0 .. MaxFill, na \in 0 .. MaxFill, nt \in 0 .. MaxFill,
          b \in ScalarValues, q \in ScalarValues :
         market = [FIFOMarketDefault EXCEPT !.base_lots_per_base_unit = b,
                                            !.quote_lots_per_tick = q,
                                            !.bids = Filled("Bid", nb),
                                            !.asks = Filled("Ask", na),
                                            !.traders = Filled("Pubkey", nt)]
    /\ overflow_checks = FALSE
    /\ ret = [op |-> "none"]
    /\ arrival = NoArrival
    /\ KeyIdle
    /\ DispatchIdle
    /\ TreeIdle
    /\ ClientIdle

\* get_book(side)
ReadBook(side) ==
    /\ ret' = [op |-> "get_book", side |-> side, out |-> get_book(market, side)]
    /\ UNCHANGED <<market, overflow_checks, arrival>>
    /\ UNCHANGED marketOthers

\* get_registered_traders()
ReadRegisteredTraders ==
    /\ ret' = [op |-> "get_registered_traders", out |-> get_registered_traders(market)]
    /\ UNCHANGED <<market, overflow_checks, arrival>>
    /\ UNCHANGED marketOthers

\* get_trader_address(trader)
ReadTraderAddress(trader) ==
    /\ ret' = [op |-> "get_trader_address", trader |-> trader,
               out |-> get_trader_address(market.traders, trader)]
    /\ UNCHANGED <<market, overflow_checks, arrival>>
    /\ UNCHANGED marketOthers

\* get_trader_state(trader)
ReadTraderState(trader) ==
    /\ ret' = [op |-> "get_trader_state", trader |-> trader,
               out |-> get_trader_state(market.traders, trader)]
    /\ UNCHANGED <<market, overflow_checks, arrival>>
    /\ UNCHANGED marketOthers

\* get_quote_lots_per_tick()
ReadQuoteLotsPerTick ==
    /\ ret' = [op |-> "get_quote_lots_per_tick", out |-> get_quote_lots_per_tick(market)]
    /\ UNCHANGED <<market, overflow_checks, arrival>>
    /\ UNCHANGED marketOthers

\* get_base_lots_per_base_unit()
ReadBaseLotsPerBaseUnit ==
    /\ ret' = [op |-> "get_base_lots_per_base_unit",
               out |-> get_base_lots_per_base_unit(market)]
    /\ UNCHANGED <<market, overflow_checks, arrival>>
    /\ UNCHANGED marketOthers

NextSurface ==
    \/ \E side \in Sides : ReadBook(side)
    \/ ReadRegisteredTraders
    \/ \E trader \in TreeUniverse("Pubkey") : ReadTraderAddress(trader)
    \/ \E trader \in TreeUniverse("Pubkey") : ReadTraderState(trader)
    \/ ReadQuoteLotsPerTick
    \/ ReadBaseLotsPerBaseUnit

SpecSurface == InitSurface /\ [][NextSurface]_vars

----------------------------------------------------------------------------
(* The client builds an order packet: one call of one constructor          *)

InitPacket ==
    /\ packet = NoPacket
    /\ ix = NoInstruction
    /\ KeyIdle
    /\ MarketIdle
    /\ DispatchIdle
    /\ TreeIdle

Constructed(call, out) ==
    /\ packet = NoPacket
    /\ packet' = [call |-> call, out |-> out]
    /\ UNCHANGED ix
    /\ UNCHANGED clientOthers

NewFokSellWithLimitPrice(price, budget, stb, limit, coid) ==
    Constructed("new_fok_sell_with_limit_price",
                new_fok_sell_with_limit_price(price, budget, stb, limit, coid))

NewFokBuyWithLimitPrice(price, budget, stb, limit, coid) ==
    Constructed("new_fok_buy_with_limit_price",
                new_fok_buy_with_limit_price(price, budget, stb, limit, coid))

NewIocSellWithLimitPrice(price, lots, stb, limit, coid) ==
    Constructed("new_ioc_sell_with_limit_price",
                new_ioc_sell_with_limit_price(price, lots, stb, limit, coid))

NewIocBuyWithLimitPrice(price, lots, stb, limit, coid) ==
    Constructed("new_ioc_buy_with_limit_price",
                new_ioc_buy_with_limit_price(price, lots, stb, limit, coid))

NewFokBuyWithSlippageWithClientOrderId(lots_in, min_out, coid) ==
    Constructed("new_fok_buy_with_slippage_with_client_order_id",
                new_fok_buy_with_slippage_with_client_order_id(lots_in, min_out, coid))

NewFokSellWithSlippageWithClientOrderId(lots_in, min_out, coid) ==
    Constructed("new_fok_sell_with_slippage_with_client_order_id",
                new_fok_sell_with_slippage_with_client_order_id(lots_in, min_out, coid))

NewFokBuyWithSlippage(lots_in, min_out) ==
    Constructed("new_fok_buy_with_slippage", new_fok_buy_with_slippage(lots_in, min_out))

NewFokSellWithSlippage(lots_in, min_out) ==
    Constructed("new_fok_sell_with_slippage", new_fok_sell_with_slippage(lots_in, min_out))

NewIocBuyWithSlippage(lots_in, min_out) ==
    Constructed("new_ioc_buy_with_slippage", new_ioc_buy_with_slippage(lots_in, min_out))

NewIocSellWithSlippage(lots_in, min_out) ==
    Constructed("new_ioc_sell_with_slippage", new_ioc_sell_with_slippage(lots_in, min_out))

NextPacket ==
    \/ \E price \in OrderPrices, lots \in LotValues, stb \in SelfTradeBehaviors,
          limit \in MatchLimits, coid \in ClientOrderIds :
         \/ NewFokSellWithLimitPrice(price, lots, stb, limit, coid)
         \/ NewFokBuyWithLimitPrice(price, lots, stb, limit, coid)
         \/ NewIocSellWithLimitPrice(price, lots, stb, limit, coid)
         \/ NewIocBuyWithLimitPrice(price, lots, stb, limit, coid)
    \/ \E lots_in \in LotValues, min_out \in LotValues, coid \in ClientOrderIds :
         \/ NewFokBuyWithSlippageWithClientOrderId(lots_in, min_out, coid)
         \/ NewFokSellWithSlippageWithClientOrderId(lots_in, min_out, coid)
    \/ \E lots_in \in LotValues, min_out \in LotValues :
         \/ NewFokBuyWithSlippage(lots_in, min_out)
         \/ NewFokSellWithSlippage(lots_in, min_out)
         \/ NewIocBuyWithSlippage(lots_in, min_out)
         \/ NewIocSellWithSlippage(lots_in, min_out)

SpecPacket == InitPacket /\ [][NextPacket]_vars

----------------------------------------------------------------------------
(* The client builds an instruction: one call of one builder.  The       *)
(* serialised packet or parameters are opaque bytes; whether the packet is *)
(* take-only is decided outside this file, so both answers are offered.    *)

Addresses == {Pubkey(1), Pubkey(2)}
Payloads == {<<>>, <<1>>}

InitInstruction ==
    /\ packet = NoPacket
    /\ ix = NoInstruction
    /\ KeyIdle
    /\ MarketIdle
    /\ DispatchIdle
    /\ TreeIdle

Built(call, args, out) ==
    /\ ix = NoInstruction
    /\ ix' = [call |-> call, args |-> args, out |-> out]
    /\ UNCHANGED packet
    /\ UNCHANGED clientOthers

CreateNewOrderInstruction(market_key, trader, base, quote, take_only, order_data) ==
    Built("create_new_order_instruction",
          [market |-> market_key, trader |-> trader, base |-> base, quote |-> quote],
          create_new_order_instruction(market_key, trader, base, quote, take_only, order_data))

CreateNewOrderInstructionWithCustomTokenAccounts(market_key, trader, base_account, quote_account, base, quote, take_only, order_data) ==
    Built("create_new_order_instruction_with_custom_token_accounts",
          [market |-> market_key, trader |-> trader, base_account |-> base_account, quote_account |-> quote_account, base |-> base, quote |-> quote],
          create_new_order_instruction_with_custom_token_accounts(market_key, trader, base_account, quote_account, base, quote, take_only, order_data))

CreateNewOrderWithFreeFundsInstruction(market_key, trader, take_only, order_data) ==
    Built("create_new_order_with_free_funds_instruction",
          [market |-> market_key, trader |-> trader],
          create_new_order_with_free_funds_instruction(market_key, trader, take_only, order_data))

CreateNewMultipleOrderInstruction(market_key, trader, base, quote, order_data) ==
    Built("create_new_multiple_order_instruction",
          [market |-> market_key, trader |-> trader, base |-> base, quote |-> quote],
          create_new_multiple_order_instruction(market_key, trader, base, quote, order_data))

CreateNewMultipleOrderInstructionWithCustomTokenAccounts(market_key, trader, base_account, quote_account, base, quote, order_data) ==
    Built("create_new_multiple_order_instruction_with_custom_token_accounts",
          [market |-> market_key, trader |-> trader, base_account |-> base_account, quote_account |-> quote_account, base |-> base, quote |-> quote],
          create_new_multiple_order_instruction_with_custom_token_accounts(market_key, trader, base_account, quote_account, base, quote, order_data))

CreateNewMultipleOrderWithFreeFundsInstruction(market_key, trader, order_data) ==
    Built("create_new_multiple_order_with_free_funds_instruction",
          [market |-> market_key, trader |-> trader],
          create_new_multiple_order_with_free_funds_instruction(market_key, trader, order_data))

CreateCancelAllOrderWithFreeFundsInstruction(market_key, trader) ==
    Built("create_cancel_all_order_with_free_funds_instruction",
          [market |-> market_key, trader |-> trader],
          create_cancel_all_order_with_free_funds_instruction(market_key, trader))

CreateCancelUpToWithFreeFundsInstruction(market_key, trader, ix_data) ==
    Built("create_cancel_up_to_with_free_funds_instruction",
          [market |-> market_key, trader |-> trader],
          create_cancel_up_to_with_free_funds_instruction(market_key, trader, ix_data))

CreateCancelMultipleOrdersByIdWithFreeFundsInstruction(market_key, trader, ix_data) ==
    Built("create_cancel_multiple_orders_by_id_with_free_funds_instruction",
          [market |-> market_key, trader |-> trader],
          create_cancel_multiple_orders_by_id_with_free_funds_instruction(market_key, trader, ix_data))

CreateReduceOrderWithFreeFundsInstruction(market_key, trader, ix_data) ==
    Built("create_reduce_order_with_free_funds_instruction",
          [market |-> market_key, trader |-> trader],
          create_reduce_order_with_free_funds_instruction(market_key, trader, ix_data))

CreateDepositFundsInstruction(market_key, trader, base, quote, ix_data) ==
    Built("create_deposit_funds_instruction",
          [market |-> market_key, trader |-> trader, base |-> base, quote |-> quote],
          create_deposit_funds_instruction(market_key, trader, base, quote, ix_data))

CreateDepositFundsInstructionWithCustomTokenAccounts(market_key, trader, seat, base_account, quote_account, base, quote, ix_data) ==
    Built("create_deposit_funds_instruction_with_custom_token_accounts",
          [market |-> market_key, trader |-> trader, seat |-> seat, base_account |-> base_account, quote_account |-> quote_account, base |-> base, quote |-> quote],
          create_deposit_funds_instruction_with_custom_token_accounts(market_key, trader, seat, base_account, quote_account, base, quote, ix_data))

ReduceOrderInstruction(market_key, trader, base, quote, ix_data) ==
    Built("reduce_order_instruction",
          [market |-> market_key, trader |-> trader, base |-> base, quote |-> quote],
          reduce_order_instruction(market_key, trader, base, quote, ix_data))

CreateReduceOrderInstructionWithCustomTokenAccounts(market_key, trader, base_account, quote_account, base, quote, ix_data) ==
    Built("create_reduce_order_instruction_with_custom_token_accounts",
          [market |-> market_key, trader |-> trader, base_account |-> base_account, quote_account |-> quote_account, base |-> base, quote |-> quote],
          create_reduce_order_instruction_with_custom_token_accounts(market_key, trader, base_account, quote_account, base, quote, ix_data))

CreateCancelAllOrdersInstruction(market_key, trader, base, quote) ==
    Built("create_cancel_all_orders_instruction",
          [market |-> market_key, trader |-> trader, base |-> base, quote |-> quote],
          create_cancel_all_orders_instruction(market_key, trader, base, quote))

CreateCancelAllOrdersInstructionWithCustomTokenAccounts(market_key, trader, base_account, quote_account, base, quote) ==
    Built("create_cancel_all_orders_instruction_with_custom_token_accounts",
          [market |-> market_key, trader |-> trader, base_account |-> base_account, quote_account |-> quote_account, base |-> base, quote |-> quote],
          create_cancel_all_orders_instruction_with_custom_token_accounts(market_key, trader, base_account, quote_account, base, quote))

CreateCancelUpToInstruction(market_key, trader, base, quote, ix_data) ==
    Built("create_cancel_up_to_instruction",
          [market |-> market_key, trader |-> trader, base |-> base, quote |-> quote],
          create_cancel_up_to_instruction(market_key, trader, base, quote, ix_data))

CreateCancelUpToInstructionWithCustomTokenAccounts(market_key, trader, base_account, quote_account, base, quote, ix_data) ==
    Built("create_cancel_up_to_instruction_with_custom_token_accounts",
          [market |-> market_key, trader |-> trader, base_account |-> base_account, quote_account |-> quote_account, base |-> base, quote |-> quote],
          create_cancel_up_to_instruction_with_custom_token_accounts(market_key, trader, base_account, quote_account, base, quote, ix_data))

CreateCancelMultipleOrdersByIdInstruction(market_key, trader, base, quote, ix_data) ==
    Built("create_cancel_multiple_orders_by_id_instruction",
          [market |-> market_key, trader |-> trader, base |-> base, quote |-> quote],
          create_cancel_multiple_orders_by_id_instruction(market_key, trader, base, quote, ix_data))

CreateCancelMultipleOrdersByIdInstructionWithCustomTokenAccounts(market_key, trader, base_account, quote_account, base, quote, ix_data) ==
    Built("create_cancel_multiple_orders_by_id_instruction_with_custom_token_accounts",
          [market |-> market_key, trader |-> trader, base_account |-> base_account, quote_account |-> quote_account, base |-> base, quote |-> quote],
          create_cancel_multiple_orders_by_id_instruction_with_custom_token_accounts(market_key, trader, base_account, quote_account, base, quote, ix_data))

CreateWithdrawFundsInstruction(market_key, trader, base, quote) ==
    Built("create_withdraw_funds_instruction",
          [market |-> market_key, trader |-> trader, base |-> base, quote |-> quote],
          create_withdraw_funds_instruction(market_key, trader, base, quote))

CreateWithdrawFundsInstructionWithCustomTokenAccounts(market_key, trader, base_account, quote_account, base, quote) ==
    Built("create_withdraw_funds_instruction_with_custom_token_accounts",
          [market |-> market_key, trader |-> trader, base_account |-> base_account, quote_account |-> quote_account, base |-> base, quote |-> quote],
          create_withdraw_funds_instruction_with_custom_token_accounts(market_key, trader, base_account, quote_account, base, quote))

CreateWithdrawFundsWithCustomAmountsInstruction(market_key, trader, base, quote, ix_data) ==
    Built("create_withdraw_funds_with_custom_amounts_instruction",
          [market |-> market_key, trader |-> trader, base |-> base, quote |-> quote],
          create_withdraw_funds_with_custom_amounts_instruction(market_key, trader, base, quote, ix_data))

CreateWithdrawFundsWithCustomAmountsInstructionWithCustomTokenAccounts(market_key, trader, base_account, quote_account, base, quote, ix_data) ==
    Built("create_withdraw_funds_with_custom_amounts_instruction_with_custom_token_accounts",
          [market |-> market_key, trader |-> trader, base_account |-> base_account, quote_account |-> quote_account, base |-> base, quote |-> quote],
          create_withdraw_funds_with_custom_amounts_instruction_with_custom_token_accounts(market_key, trader, base_account, quote_account, base, quote, ix_data))

CreateRequestSeatInstruction(trader, market_key) ==
    Built("create_request_seat_instruction",
          [market |-> market_key, trader |-> trader],
          create_request_seat_instruction(trader, market_key))

NextInstruction ==
    \E market_key \in Addresses, trader \in Addresses, seat \in Addresses,
       base_account \in Addresses, quote_account \in Addresses,
       base \in Addresses, quote \in Addresses,
       take_only \in BOOLEAN, order_data \in Payloads, ix_data \in Payloads :
        \/ CreateNewOrderInstruction(market_key, trader, base, quote, take_only, order_data)
        \/ CreateNewOrderInstructionWithCustomTokenAccounts(market_key, trader, base_account, quote_account, base, quote, take_only, order_data)
        \/ CreateNewOrderWithFreeFundsInstruction(market_key, trader, take_only, order_data)
        \/ CreateNewMultipleOrderInstruction(market_key, trader, base, quote, order_data)
        \/ CreateNewMultipleOrderInstructionWithCustomTokenAccounts(market_key, trader, base_account, quote_account, base, quote, order_data)
        \/ CreateNewMultipleOrderWithFreeFundsInstruction(market_key, trader, order_data)
        \/ CreateCancelAllOrderWithFreeFundsInstruction(market_key, trader)
        \/ CreateCancelUpToWithFreeFundsInstruction(market_key, trader, ix_data)
        \/ CreateCancelMultipleOrdersByIdWithFreeFundsInstruction(market_key, trader, ix_data)
        \/ CreateReduceOrderWithFreeFundsInstruction(market_key, trader, ix_data)
        \/ CreateDepositFundsInstruction(market_key, trader, base, quote, ix_data)
        \/ CreateDepositFundsInstructionWithCustomTokenAccounts(market_key, trader, seat, base_account, quote_account, base, quote, ix_data)
        \/ ReduceOrderInstruction(market_key, trader, base, quote, ix_data)
        \/ CreateReduceOrderInstructionWithCustomTokenAccounts(market_key, trader, base_account, quote_account, base, quote, ix_data)
        \/ CreateCancelAllOrdersInstruction(market_key, trader, base, quote)
        \/ CreateCancelAllOrdersInstructionWithCustomTokenAccounts(market_key, trader, base_account, quote_account, base, quote)
        \/ CreateCancelUpToInstruction(market_key, trader, base, quote, ix_data)
        \/ CreateCancelUpToInstructionWithCustomTokenAccounts(market_key, trader, base_account, quote_account, base, quote, ix_data)
        \/ CreateCancelMultipleOrdersByIdInstruction(market_key, trader, base, quote, ix_data)
        \/ CreateCancelMultipleOrdersByIdInstructionWithCustomTokenAccounts(market_key, trader, base_account, quote_account, base, quote, ix_data)
        \/ CreateWithdrawFundsInstruction(market_key, trader, base, quote)
        \/ CreateWithdrawFundsInstructionWithCustomTokenAccounts(market_key, trader, base_account, quote_account, base, quote)
        \/ CreateWithdrawFundsWithCustomAmountsInstruction(market_key, trader, base, quote, ix_data)
        \/ CreateWithdrawFundsWithCustomAmountsInstructionWithCustomTokenAccounts(market_key, trader, base_account, quote_account, base, quote, ix_data)
        \/ CreateRequestSeatInstruction(trader, market_key)

SpecInstruction == InitInstruction /\ [][NextInstruction]_vars

----------------------------------------------------------------------------
(* Properties of the comparator and of the side decoder (SpecKey)          *)

Price(k) == k.num_quote_ticks_per_base_unit
SeqOf(k) == k.order_sequence_number
\* the top bit of the sequence field is set / clear
TopBitSet(k) == SeqOf(k) >= TopBit
BothBids(a, b) == TopBitSet(a) /\ TopBitSet(b)
BothAsks(a, b) == ~TopBitSet(a) /\ ~TopBitSet(b)
\* the Ordering with Less and Greater exchanged
reverse(o) == IF o = "Less" THEN "Greater" ELSE IF o = "Greater" THEN "Less" ELSE "Equal"

\* C1: for two bid keys a and b with a.price_ticks > b.price_ticks, cmp(a, b) is
\* Less: the higher-priced bid sorts first, whatever the sequence fields are.
C1_HigherPricedBidFirst ==
    kpc = "compared" =>
        \A i, j \in KeyIdx :
            (BothBids(keys[i], keys[j]) /\ Price(keys[i]) > Price(keys[j]))
                => cmp_out[<<i, j>>] = "Less"

\* two bids, the first with the higher price and the lower sequence field
C1_Witness ==
    /\ kpc = "compared"
    /\ BothBids(keys[1], keys[2])
    /\ Price(keys[1]) > Price(keys[2])
    /\ SeqOf(keys[1]) < SeqOf(keys[2])
    /\ cmp_out[<<1, 2>>] = "Less"

\* C2 as stated: for two bid keys with equal price, the key with the lower
\* sequence field sorts first: a.sequence < b.sequence implies cmp(a, b) is Less.
C2_LowerSequenceBidFirst ==
    kpc = "compared" =>
        \A i, j \in KeyIdx :
            (BothBids(keys[i], keys[j]) /\ Price(keys[i]) = Price(keys[j])
                /\ SeqOf(keys[i]) < SeqOf(keys[j]))
                => cmp_out[<<i, j>>] = "Less"

\* C2 as amended: for two bid keys with equal price and different sequence
\* fields, the key with the HIGHER sequence field sorts first: cmp(a, b) is Less
\* exactly when a.sequence > b.sequence.
C2_HigherSequenceBidFirst ==
    kpc = "compared" =>
        \A i, j \in KeyIdx :
            (BothBids(keys[i], keys[j]) /\ Price(keys[i]) = Price(keys[j]))
                => (cmp_out[<<i, j>>] = "Less" <=> SeqOf(keys[i]) > SeqOf(keys[j]))

\* two bids at one price, the first with the higher sequence field
C2_Witness ==
    /\ kpc = "compared"
    /\ BothBids(keys[1], keys[2])
    /\ Price(keys[1]) = Price(keys[2])
    /\ SeqOf(keys[1]) > SeqOf(keys[2])
    /\ cmp_out[<<1, 2>>] = "Less"
    /\ cmp_out[<<2, 1>>] = "Greater"

\* C3: for two ask keys a and b, cmp(a, b) is Less when a.price_ticks <
\* b.price_ticks, and for equal prices it is Less exactly when a.sequence <
\* b.sequence.
C3_AskLowerPriceThenLowerSequence ==
    kpc = "compared" =>
        \A i, j \in KeyIdx :
            BothAsks(keys[i], keys[j]) =>
                /\ Price(keys[i]) < Price(keys[j]) => cmp_out[<<i, j>>] = "Less"
                /\ Price(keys[i]) = Price(keys[j]) =>
                       (cmp_out[<<i, j>>] = "Less" <=> SeqOf(keys[i]) < SeqOf(keys[j]))

\* two asks at one price with sequences 1 and 2, and a third ask that has a
\* lower price and a higher sequence than both
C3_Witness ==
    /\ kpc = "compared"
    /\ Price(keys[1]) = Price(keys[2])
    /\ SeqOf(keys[1]) = 1 /\ SeqOf(keys[2]) = 2
    /\ cmp_out[<<1, 2>>] = "Less"
    /\ ~TopBitSet(keys[3]) /\ SeqOf(keys[3]) > 2
    /\ Price(keys[3]) < Price(keys[1])
    /\ cmp_out[<<3, 1>>] = "Less"

\* C4: on the keys of one side cmp is a strict total order: cmp(a, b) is the
\* reverse of cmp(b, a), Less is transitive, and cmp(a, b) is Equal exactly
\* when a and b have the same (price_ticks, sequence) pair.
C4_StrictTotalOrderPerSide ==
    kpc = "compared" =>
        \A i, j, k \in KeyIdx :
            /\ (BothBids(keys[i], keys[j]) \/ BothAsks(keys[i], keys[j])) =>
                   /\ cmp_out[<<i, j>>] = reverse(cmp_out[<<j, i>>])
                   /\ cmp_out[<<i, j>>] = "Equal" <=> keys[i] = keys[j]
            /\ (\/ BothBids(keys[i], keys[j]) /\ BothBids(keys[j], keys[k])
                \/ BothAsks(keys[i], keys[j]) /\ BothAsks(keys[j], keys[k])) =>
                   ((cmp_out[<<i, j>>] = "Less" /\ cmp_out[<<j, k>>] = "Less")
                        => cmp_out[<<i, k>>] = "Less")

\* three distinct bids, two of them at one price, in a chain 1 < 2 < 3
C4_Witness ==
    /\ kpc = "compared"
    /\ BothBids(keys[1], keys[2]) /\ BothBids(keys[2], keys[3])
    /\ Price(keys[1]) = Price(keys[2]) /\ Price(keys[2]) # Price(keys[3])
    /\ cmp_out[<<1, 2>>] = "Less" /\ cmp_out[<<2, 3>>] = "Less"
    /\ cmp_out[<<1, 3>>] = "Less" /\ cmp_out[<<3, 1>>] = "Greater"
    /\ cmp_out[<<1, 1>>] = "Equal"

\* C5: from_order_sequence_number(n) is Bid if and only if the top bit of n is
\* set (n >= 2^(w-1)) and Ask otherwise; 0 and 2^(w-1) - 1 give Ask, 2^(w-1) and
\* 2^w - 1 give Bid.
C5_SideIsTopBit ==
    kpc # "init" =>
        \A i \in KeyIdx :
            LET n == SeqOf(keys[i])
            IN  /\ side_out[i] \in {"Bid", "Ask"}
                /\ side_out[i] = "Bid" <=> n >= TopBit
                /\ n = 0 => side_out[i] = "Ask"
                /\ n = TopBit - 1 => side_out[i] = "Ask"
                /\ n = TopBit => side_out[i] = "Bid"
                /\ n = Modulus - 1 => side_out[i] = "Bid"

\* the two values around the top bit and the largest value, decoded
C5_Witness ==
    /\ kpc = "decoded"
    /\ SeqOf(keys[1]) = TopBit - 1 /\ side_out[1] = "Ask"
    /\ SeqOf(keys[2]) = TopBit /\ side_out[2] = "Bid"
    /\ SeqOf(keys[3]) = Modulus - 1 /\ side_out[3] = "Bid"

----------------------------------------------------------------------------
(* Properties of the market and of its ladder (Spec)                       *)

\* a is at a better price than b on the given side
BetterPrice(side, a, b) ==
    IF side = "Bid" THEN Price(a) > Price(b) ELSE Price(a) < Price(b)

\* best price first and, at one price, earlier arrival first
PriceTimeBefore(side, a, b) ==
    \/ BetterPrice(side, a, b)
    \/ Price(a) = Price(b) /\ arrival[a] < arrival[b]

\* the comparator orders the resting keys of a side by price-time priority, and
\* the side's tree iterates in that order
PriceTimeOrdered(side, tree) ==
    /\ \A a, b \in TreeKeys(tree) :
           cmp(a, b) = "Less" <=> PriceTimeBefore(side, a, b)
    /\ \A i, j \in 1 .. Len(tree) :
           i < j => PriceTimeBefore(side, tree[i].key, tree[j].key)

\* C6: with a strictly increasing counter c < 2^(w-1), stored as c for an ask and
\* as !c for a bid, the ascending comparator order of each side's keys is best
\* price first and, among equal prices, earlier arrival first.
C6_PriceTimePriority ==
    /\ PriceTimeOrdered("Bid", market.bids)
    /\ PriceTimeOrdered("Ask", market.asks)

\* three bids: two at the best price in arrival order, which arrived after the
\* bid at the worse price
C6_Witness ==
    /\ Len(market.bids) = 3
    /\ Price(market.bids[1].key) = Price(market.bids[2].key)
    /\ Price(market.bids[2].key) > Price(market.bids[3].key)
    /\ arrival[market.bids[3].key] = 0
    /\ arrival[market.bids[1].key] = 1
    /\ arrival[market.bids[2].key] = 2

\* the exact sum of the lots resting at a price in the entries from i on
RECURSIVE LotsAtPriceFrom(_, _, _)
LotsAtPriceFrom(tree, price, i) ==
    IF i > Len(tree) THEN 0
    ELSE (IF Price(tree[i].key) = price THEN tree[i].value.num_base_lots ELSE 0)
         + LotsAtPriceFrom(tree, price, i + 1)

LotsAtPrice(tree, price) == LotsAtPriceFrom(tree, price, 1)

LevelsAreSums(levels, tree) ==
    \A i \in 1 .. Len(levels) :
        levels[i].size_in_base_lots = LotsAtPrice(tree, levels[i].price_in_ticks)

Returned == ret.op = "get_ladder" /\ ~ret.ladder.panicked

\* C7: for levels >= 1, every level get_ladder returns for a side has
\* size_in_base_lots equal to the sum of num_base_lots of all resting orders of
\* that side at the level's price.
C7_LevelSizeIsSum ==
    (Returned /\ ret.levels >= 1) =>
        /\ LevelsAreSums(ret.ladder.bids, market.bids)
        /\ LevelsAreSums(ret.ladder.asks, market.asks)

\* C8: get_ladder(levels) returns at most `levels` bids and at most `levels`
\* asks, and for levels = 0 both lists are empty whatever the book holds.
C8_AtMostLevels ==
    Returned =>
        /\ Len(ret.ladder.bids) <= ret.levels
        /\ Len(ret.ladder.asks) <= ret.levels
        /\ ret.levels = 0 => (ret.ladder.bids = <<>> /\ ret.ladder.asks = <<>>)

DistinctPrices(tree) == {Price(k) : k \in TreeKeys(tree)}

\* bids at two prices read with levels = 1: the walk stops at the second price
C8_Witness ==
    /\ Returned
    /\ ret.levels = 1
    /\ Cardinality(DistinctPrices(market.bids)) = 2
    /\ Len(ret.ladder.bids) = 1
    /\ market.asks # <<>>
    /\ Len(ret.ladder.asks) = 1

\* C9: the levels are in best-to-worst order with no repeated price: strictly
\* decreasing price_in_ticks for bids, strictly increasing for asks.
C9_BestToWorst ==
    Returned =>
        /\ \A i, j \in 1 .. Len(ret.ladder.bids) :
               i < j => ret.ladder.bids[i].price_in_ticks > ret.ladder.bids[j].price_in_ticks
        /\ \A i, j \in 1 .. Len(ret.ladder.asks) :
               i < j => ret.ladder.asks[i].price_in_ticks < ret.ladder.asks[j].price_in_ticks

\* three bids at two prices read into two levels
C9_Witness ==
    /\ Returned
    /\ Len(market.bids) = 3
    /\ Len(ret.ladder.bids) = 2
    /\ ret.ladder.bids[1].price_in_ticks > ret.ladder.bids[2].price_in_ticks

\* C10: get_ladder is a pure read: a step that returns a ladder leaves the
\* market (bids, asks, trader registry, scalar fields) as it was, and a second
\* call with the same levels on the same state returns an equal ladder.
C10_PureRead ==
    [][/\ ret'.op = "get_ladder" => market' = market
       /\ (ret.op = "get_ladder" /\ ret'.op = "get_ladder" /\ ret'.levels = ret.levels)
              => ret'.ladder = ret.ladder]_vars

\* a ladder read from a market with a seat, bids and asks
C10_Witness ==
    /\ Returned
    /\ ret.levels >= 1
    /\ market.traders # <<>>
    /\ market.bids # <<>> /\ market.asks # <<>>
    /\ ret.ladder.bids # <<>> /\ ret.ladder.asks # <<>>

----------------------------------------------------------------------------
(* Properties of the dispatch (SpecDispatch)                               *)

AllCalled ==
    dret.size # NotCalled /\ dret.load # NotCalled /\ dret.load_mut # NotCalled
Supported == ParamsTuple(params) \in KnownInstantiations
BufferSuffices == bytes.len >= SizeOfFIFOMarket(ParamsTuple(params)) /\ bytes.aligned

\* C11: get_market_size, load_with_dispatch and load_with_dispatch_mut accept
\* the same tuples, the six known ones: on any other tuple all three return
\* None whatever the buffer is, and on a known tuple get_market_size returns
\* Some and each load returns Some when the buffer suffices.
C11_SameSupportedTuples ==
    AllCalled =>
        /\ dret.size.kind = "Some" <=> Supported
        /\ ~Supported =>
               (dret.size = None /\ dret.load = None /\ dret.load_mut = None)
        /\ BufferSuffices =>
               /\ dret.load.kind = "Some" <=> Supported
               /\ dret.load_mut.kind = "Some" <=> Supported

\* a permutation of a known tuple, with a buffer large enough for any known one
C11_Witness ==
    /\ AllCalled
    /\ ParamsTuple(params) = <<512, 256, 512>>
    /\ bytes.len = SizeOfFIFOMarket(<<4096, 4096, 8192>>) + 8 /\ bytes.aligned
    /\ dret.size = None /\ dret.load = None /\ dret.load_mut = None

\* C12: for each of the six tuples get_market_size returns the byte size of the
\* FIFOMarket with those capacities, and both loads on an aligned buffer of
\* exactly that size return a handle whose maps have the tuple's capacities.
C12_SizeAndLoadAgree ==
    (AllCalled /\ Supported) =>
        /\ dret.size = SomeSize(SizeOfFIFOMarket(ParamsTuple(params)))
        /\ (bytes.aligned /\ bytes.len = dret.size.size) =>
               /\ dret.load = SomeHandle(ParamsTuple(params), FALSE)
               /\ dret.load_mut = SomeHandle(ParamsTuple(params), TRUE)

\* (2048, 2048, 128), whose neighbour (2048, 2048, 4096) differs in the seats only
C12_Witness ==
    /\ AllCalled
    /\ ParamsTuple(params) = <<2048, 2048, 128>>
    /\ bytes.aligned /\ bytes.len = dret.size.size
    /\ dret.load.kind = "Some" /\ dret.load.inst = <<2048, 2048, 128>>
    /\ dret.load_mut.kind = "Some" /\ dret.load_mut.inst = <<2048, 2048, 128>>

\* C13: for a known tuple and a buffer that is too short or misaligned, both
\* loads return None as a value: no fault, and no handle.
C13_MalformedBufferIsNone ==
    (AllCalled /\ Supported /\ ~BufferSuffices) =>
        (dret.load = None /\ dret.load_mut = None)

\* an aligned buffer one byte short of the instantiation
C13_Witness ==
    /\ AllCalled
    /\ ParamsTuple(params) = <<512, 512, 256>>
    /\ bytes.aligned /\ bytes.len = SizeOfFIFOMarket(<<512, 512, 256>>) - 1
    /\ dret.load = None /\ dret.load_mut = None

----------------------------------------------------------------------------
(* The ordered map, slot by slot                                           *)

Ord == OrdKind(tkind)
Universe == TreeUniverse(tkind)
\* the keys held in the slots that are off the free list
Stored(t) == {t.nodes[i].key : i \in OccupiedSlots(t)}
IterKeys(t) == {iter(t)[i].key : i \in 1 .. Len(iter(t))}

\* C14: in every step, a successful insert(k, v) makes get(k) return v, and
\* get(k2) returns what it returned before for every key k2 that the step
\* neither inserted nor removed
C14_GetReturnsLastInsert ==
    [][\A k \in Universe :
         IF tret'.op = "insert" /\ tret'.key = k /\ tret'.ok
         THEN get(arena', Ord, k) = tret'.value
         ELSE IF tret'.op = "remove" /\ tret'.key = k
         THEN TRUE
         ELSE get(arena', Ord, k) = get(arena, Ord, k)]_vars

\* the key that comes with two values was inserted with the second one while
\* every slot holds an entry, and get returns that value
C14_Witness ==
    /\ tret.op = "insert" /\ tret.ok
    /\ tret.key = KeyAt(tkind, 1)
    /\ tret.value = <<ValueAt(tkind, 1, 1)>>
    /\ arena.size = MAX_SIZE
    /\ get(arena, Ord, tret.key) = tret.value

\* C15: in every step, an insert of a key that is not stored while all MAX_SIZE
\* slots hold an entry fails and leaves the entries as they were, and the
\* number of entries never exceeds MAX_SIZE
C15_FullMapRejectsNewKey ==
    [][/\ (/\ tret'.op = "insert"
           /\ tret'.key \notin Stored(arena)
           /\ Cardinality(OccupiedSlots(arena)) = MAX_SIZE)
          => ~tret'.ok /\ iter(arena') = iter(arena) /\ arena' = arena
       /\ arena'.size <= MAX_SIZE
       /\ Len(iter(arena')) <= MAX_SIZE]_vars

\* an insert of a new key has just failed on a full map
C15_Witness ==
    /\ tret.op = "insert" /\ ~tret.ok
    /\ tret.key \notin Stored(arena)
    /\ arena.size = MAX_SIZE
    /\ Len(iter(arena)) = MAX_SIZE

\* C16: in every step, remove(k) of a key that is not stored returns None and
\* leaves the entries as they were; remove(k) of a stored key returns the value
\* get(k) returned, after it get(k) is None, and get(k2) is as before for every
\* other key
C16_RemoveReturnsValue ==
    [][tret'.op = "remove" =>
         LET k == tret'.key
         IN  IF k \notin Stored(arena)
             THEN tret'.value = <<>> /\ iter(arena') = iter(arena)
             ELSE /\ tret'.value # <<>>
                  /\ tret'.value = get(arena, Ord, k)
                  /\ get(arena', Ord, k) = <<>>
                  /\ \A k2 \in Universe \ {k} :
                       get(arena', Ord, k2) = get(arena, Ord, k2)]_vars

\* the second value of the key that comes with two was just returned by a
\* remove that unlinked a slot and left other entries behind
C16_Witness ==
    /\ tret.op = "remove"
    /\ tret.key = KeyAt(tkind, 1)
    /\ tret.value = <<ValueAt(tkind, 1, 1)>>
    /\ tret.relinked # {}
    /\ arena.size = MAX_SIZE - 1
    /\ get(arena, Ord, tret.key) = <<>>

\* C17: in every step, an insert of a key that is not stored succeeds when
\* fewer than MAX_SIZE entries are stored, whatever was removed before, and
\* there is then one entry more
C17_FreedSlotsAreReused ==
    [][(/\ tret'.op = "insert"
        /\ tret'.key \notin IterKeys(arena)
        /\ Len(iter(arena)) < MAX_SIZE)
       => /\ tret'.ok
          /\ Len(iter(arena')) = Len(iter(arena)) + 1]_vars

\* the insert that filled the map took slot 1, the first slot ever handed
\* out: it had been freed by a remove
C17_Witness ==
    /\ tret.op = "insert" /\ tret.ok
    /\ tret.addr = <<1>>
    /\ arena.size = MAX_SIZE
    /\ MAX_SIZE > 1
    /\ arena.free_list_head = SENTINEL

\* C18: iteration yields the stored keys and no others, each once, each
\* comparing Less than every later one under the tree's key order
C18_IterationAscending ==
    LET s == iter(arena)
    IN  /\ IterKeys(arena) = Stored(arena)
        /\ IterKeys(arena) = {k \in Universe : get(arena, Ord, k) # <<>>}
        /\ Len(s) = arena.size
        /\ \A i \in 1 .. Len(s) : \A j \in (i + 1) .. Len(s) :
             KeyOrder(Ord, s[i].key, s[j].key) = "Less"

\* a full bid book whose first entry in iteration sits in a later slot than
\* its last: the order is not the order of arrival in the arena
C18_Witness ==
    /\ tkind = "Bid"
    /\ arena.size = MAX_SIZE
    /\ Len(iter(arena)) = MAX_SIZE
    /\ get_addr(arena, Ord, iter(arena)[1].key)
         > get_addr(arena, Ord, iter(arena)[MAX_SIZE].key)

\* C19: in every step, a key that has an address and is not removed by the
\* step has the same address after it, and the slot at that address still
\* holds that key (so a trader_index still designates its trader)
C19_AddressStable ==
    [][\A k \in Universe :
         (/\ get_addr(arena, Ord, k) # SENTINEL
          /\ ~(tret'.op = "remove" /\ tret'.key = k))
         => /\ get_addr(arena', Ord, k) = get_addr(arena, Ord, k)
            /\ arena'.nodes[get_addr(arena, Ord, k)].key = k]_vars

\* in the registry, the last step hung a trader's slot under another parent
\* while it inserted or removed another trader, and the trader is still found
\* at that slot
C19_Witness ==
    /\ tkind = "Pubkey"
    /\ tret.op \in {"insert", "remove"}
    /\ \E k \in Universe \ {tret.key} :
         /\ get_addr(arena, Ord, k) \in tret.relinked
         /\ arena.nodes[get_addr(arena, Ord, k)].key = k

\* C20: get_trader_address(t) returned None exactly when t is not in the
\* registry, otherwise Some of an address other than the sentinel, and it is
\* Some exactly when get_trader_state(t) is Some
C20_TraderAddressIffState ==
    /\ tret.op = "get_trader_address" =>
         /\ (tret.addr = <<>>) = (tret.key \notin Stored(arena))
         /\ tret.addr # <<>> => tret.addr[1] # SENTINEL
         /\ (tret.addr # <<>>) = (get_trader_state(arena, tret.key) # <<>>)
    /\ tret.op = "get_trader_state" =>
         /\ (tret.value # <<>>) = (get_trader_address(arena, tret.key) # <<>>)

\* the address of a registered trader that is not at the root was returned
\* while another identity has no seat
C20_Witness ==
    /\ tret.op = "get_trader_address"
    /\ tret.addr # <<>>
    /\ tret.addr[1] # arena.root
    /\ tret.key \in Stored(arena)
    /\ \E t \in Universe : get_trader_address(arena, t) = <<>>

----------------------------------------------------------------------------
(* The capability surface                                                  *)

SurfaceReads ==
    {"get_book", "get_registered_traders", "get_trader_address", "get_trader_state",
     "get_quote_lots_per_tick", "get_base_lots_per_base_unit"}

\* the sides the keys of a tree decode to
SidesIn(t) ==
    {from_order_sequence_number(iter(t)[i].key.order_sequence_number) :
       i \in 1 .. Len(iter(t))}

\* C21: every step that is one of the six reads leaves the market record as it
\* was; get_book(Bid) returns the bids tree and get_book(Ask) the asks tree,
\* every key of the returned tree being of the side asked for; and the other
\* reads return the registry and the two scalars of the market
C21_ReadsLeaveMarketAlone ==
    [][ret'.op \in SurfaceReads =>
         /\ market' = market
         /\ ret'.op = "get_book" =>
              /\ ret'.out = IF ret'.side = "Bid" THEN market.bids ELSE market.asks
              /\ SidesIn(ret'.out) \subseteq {ret'.side}
         /\ ret'.op = "get_registered_traders" => ret'.out = market.traders
         /\ ret'.op = "get_quote_lots_per_tick" => ret'.out = market.quote_lots_per_tick
         /\ ret'.op = "get_base_lots_per_base_unit" =>
              ret'.out = market.base_lots_per_base_unit]_vars

\* the asks were read from a market whose bids and asks both hold orders
C21_Witness ==
    /\ ret.op = "get_book" /\ ret.side = "Ask"
    /\ market.bids.size > 0 /\ market.asks.size > 0
    /\ ret.out = market.asks
    /\ ret.out # market.bids
    /\ market.base_lots_per_base_unit # market.quote_lots_per_tick

----------------------------------------------------------------------------
(* The comparator beyond one side, and the side of an inverted counter     *)

\* the lexicographic comparison of the pair <<p1, s1>> against <<p2, s2>>
LexCmp(p1, s1, p2, s2) ==
    IF p1 < p2 \/ (p1 = p2 /\ s1 < s2) THEN "Less"
    ELSE IF p1 = p2 /\ s1 = s2 THEN "Equal"
    ELSE "Greater"

\* C22: when self is a bid key, cmp(self, other) is the lexicographic
\* comparison of (other.price_ticks, other.sequence) against (self.price_ticks,
\* self.sequence), whatever the side of other
C22_BidCmpIsReversedLexicographic ==
    kpc = "compared" =>
        \A i, j \in KeyIdx :
            TopBitSet(keys[i]) =>
                cmp_out[<<i, j>>] =
                    LexCmp(Price(keys[j]), SeqOf(keys[j]), Price(keys[i]), SeqOf(keys[i]))

\* a bid compared with a bid at its price and a lower sequence field, where the
\* sequence decides, and with a bid at a higher price and a lower sequence
\* field, where the price decides against the sequence
C22_Witness ==
    /\ kpc = "compared"
    /\ BothBids(keys[1], keys[2]) /\ BothBids(keys[1], keys[3])
    /\ Price(keys[1]) = Price(keys[2]) /\ SeqOf(keys[2]) < SeqOf(keys[1])
    /\ cmp_out[<<1, 2>>] = "Less"
    /\ Price(keys[3]) > Price(keys[1]) /\ SeqOf(keys[3]) < SeqOf(keys[1])
    /\ cmp_out[<<1, 3>>] = "Greater"

\* C25: for a bid key a and an ask key b, cmp(a, b) and cmp(b, a) are the same
\* ordering, it is not Equal, and for equal prices it is Less
C25_MixedSidesCompareAlike ==
    kpc = "compared" =>
        \A i, j \in KeyIdx :
            (TopBitSet(keys[i]) /\ ~TopBitSet(keys[j])) =>
                /\ cmp_out[<<i, j>>] \in {"Less", "Greater"}
                /\ cmp_out[<<i, j>>] = cmp_out[<<j, i>>]
                /\ Price(keys[i]) = Price(keys[j]) => cmp_out[<<i, j>>] = "Less"

\* a bid with an ask at its price, both ways Less, and with an ask at a higher
\* price, both ways Greater
C25_Witness ==
    /\ kpc = "compared"
    /\ TopBitSet(keys[1]) /\ ~TopBitSet(keys[2]) /\ ~TopBitSet(keys[3])
    /\ Price(keys[1]) = Price(keys[2])
    /\ cmp_out[<<1, 2>>] = "Less" /\ cmp_out[<<2, 1>>] = "Less"
    /\ Price(keys[3]) > Price(keys[1])
    /\ cmp_out[<<1, 3>>] = "Greater" /\ cmp_out[<<3, 1>>] = "Greater"

\* C26: when one key's sequence field is the bitwise inverse of another's, the
\* side decoded from it is the opposite of the side decoded from the other;
\* opposite applied twice gives the side back and never gives the side it was
\* applied to; a field below 2^(w-1) decodes as Ask and its inverse as Bid
C26_InverseDecodesOpposite ==
    kpc # "init" =>
        \A i, j \in KeyIdx :
            /\ opposite(opposite(side_out[i])) = side_out[i]
            /\ opposite(side_out[i]) # side_out[i]
            /\ SeqOf(keys[j]) = BitNot(SeqOf(keys[i])) =>
                   /\ side_out[j] = opposite(side_out[i])
                   /\ SeqOf(keys[i]) < TopBit =>
                          side_out[i] = "Ask" /\ side_out[j] = "Bid"

\* the counter values 0 and 1 decoded next to the inverse of 0
C26_Witness ==
    /\ kpc # "init"
    /\ SeqOf(keys[1]) = 0 /\ SeqOf(keys[2]) = Modulus - 1 /\ SeqOf(keys[3]) = 1
    /\ side_out[1] = "Ask" /\ side_out[2] = "Bid" /\ side_out[3] = "Ask"

----------------------------------------------------------------------------
(* The fill-or-kill constructors                                           *)

FokConstructors ==
    {"new_fok_sell_with_limit_price", "new_fok_buy_with_limit_price",
     "new_fok_buy_with_slippage", "new_fok_sell_with_slippage",
     "new_fok_buy_with_slippage_with_client_order_id",
     "new_fok_sell_with_slippage_with_client_order_id"}
FokSells ==
    {"new_fok_sell_with_limit_price", "new_fok_sell_with_slippage",
     "new_fok_sell_with_slippage_with_client_order_id"}

\* C23: the packet a fill-or-kill constructor returned is ImmediateOrCancel;
\* a sell is an Ask whose min_base_lots_to_fill equals its num_base_lots and
\* whose num_quote_lots is zero, a buy is a Bid whose min_quote_lots_to_fill
\* equals its num_quote_lots and whose num_base_lots is zero
C23_FokMinimumIsBudget ==
    packet.call \in FokConstructors =>
        LET o == packet.out
        IN  /\ o.variant = "ImmediateOrCancel"
            /\ \/ o.min_base_lots_to_fill = o.num_base_lots
               \/ o.min_quote_lots_to_fill = o.num_quote_lots
            /\ o.side = IF packet.call \in FokSells THEN "Ask" ELSE "Bid"
            /\ IF o.side = "Ask"
               THEN o.min_base_lots_to_fill = o.num_base_lots /\ o.num_quote_lots = 0
               ELSE o.min_quote_lots_to_fill = o.num_quote_lots /\ o.num_base_lots = 0

\* a market buy of two quote lots for at least one base lot: the minimum in
\* base differs from the base budget, the minimum in quote is the budget
C23_Witness ==
    /\ packet.call = "new_fok_buy_with_slippage"
    /\ packet.out.num_quote_lots = 2
    /\ packet.out.min_quote_lots_to_fill = 2
    /\ packet.out.min_base_lots_to_fill = 1
    /\ packet.out.num_base_lots = 0

----------------------------------------------------------------------------
(* The instruction builders against the declared accounts                  *)

\* the variant whose discriminant is the first byte of the data
VariantOf(byte) ==
    CHOOSE v \in DOMAIN PhoenixInstruction : PhoenixInstruction[v].discriminant = byte

\* the key a declared account name stands for in a call with arguments a
Expected(name, a) ==
    CASE name = "phoenix_program" -> id
      [] name = "log_authority" -> phoenix_log_authority_id
      [] name = "token_program" -> spl_token_id
      [] name = "system_program" -> system_program_id
      [] name = "market" -> a.market
      [] name \in {"trader", "payer"} -> a.trader
      [] name = "seat" ->
            IF "seat" \in DOMAIN a THEN a.seat ELSE get_seat_address(a.market, a.trader)
      [] name = "base_account" ->
            IF "base_account" \in DOMAIN a THEN a.base_account
            ELSE get_associated_token_address(a.trader, a.base)
      [] name = "quote_account" ->
            IF "quote_account" \in DOMAIN a THEN a.quote_account
            ELSE get_associated_token_address(a.trader, a.quote)
      [] name = "base_vault" -> get_vault_address(a.market, a.base)
      [] name = "quote_vault" -> get_vault_address(a.market, a.quote)

Declared(built) == PhoenixInstruction[VariantOf(built.out.data[1])].accounts

\* the account at position i is the declared one, with the declared flags
MatchesAt(built, i) ==
    /\ built.out.accounts[i].pubkey = Expected(Declared(built)[i].name, built.args)
    /\ built.out.accounts[i].is_signer = Declared(built)[i].signer
    /\ built.out.accounts[i].is_writable = Declared(built)[i].writable

DepositBuilders ==
    {"create_deposit_funds_instruction",
     "create_deposit_funds_instruction_with_custom_token_accounts"}

\* C24: the instruction a builder returned lists as many accounts as the
\* variant named by its first data byte declares, each in the declared
\* position with the declared signer and writable flags
C24_BuildersMatchDeclarations ==
    ix.call # "none" =>
        /\ Len(ix.out.accounts) = Len(Declared(ix))
        /\ \A i \in 1..Len(ix.out.accounts) : MatchesAt(ix, i)

\* what the builders do: every builder but the two of DepositFunds matches
\* its declaration, and those two differ from it in one flag only, the
\* seat (position 4 in the source's numbering) being passed writable
BuildersMatchButDepositSeat ==
    ix.call # "none" =>
        /\ Len(ix.out.accounts) = Len(Declared(ix))
        /\ \A i \in 1..Len(ix.out.accounts) :
              IF ix.call \in DepositBuilders /\ i = 5
              THEN /\ Declared(ix)[i] = account("seat", FALSE, FALSE)
                   /\ ix.out.accounts[i] = AccountMeta_new(Expected("seat", ix.args), FALSE)
              ELSE MatchesAt(ix, i)

----------------------------------------------------------------------------
(* The ladder at growing depth                                             *)

IsPrefix(a, b) == Len(a) <= Len(b) /\ SubSeq(b, 1, Len(a)) = a

Min(a, b) == IF a <= b THEN a ELSE b

\* C27: each side of the ladder get_ladder(k) returned is a prefix of the same
\* side of the ladder get_ladder(k + 1) returns on the same book
C27_LadderIsPrefixOfDeeper ==
    Returned =>
        LET deeper == get_ladder(market, ret.levels + 1, overflow_checks)
        IN  ~deeper.panicked =>
                /\ IsPrefix(ret.ladder.bids, deeper.bids)
                /\ IsPrefix(ret.ladder.asks, deeper.asks)

\* two bids at the best price and one below, read at depth 1: the one level
\* holds both orders, and depth 2 adds the second price after it
C27_Witness ==
    /\ Returned
    /\ ret.levels = 1
    /\ Len(market.bids) = 3
    /\ Price(market.bids[1].key) = Price(market.bids[2].key)
    /\ Price(market.bids[2].key) # Price(market.bids[3].key)
    /\ Len(ret.ladder.bids) = 1
    /\ ret.ladder.bids[1].size_in_base_lots =
           market.bids[1].value.num_base_lots + market.bids[2].value.num_base_lots
    /\ Len(get_ladder(market, 2, overflow_checks).bids) = 2

\* C28: for levels >= 1 each side of the returned ladder has
\* min(levels, number of distinct prices resting on that side) levels, and
\* each side is what the same call returns when the other side is empty
C28_LevelCountPerSide ==
    (Returned /\ ret.levels >= 1) =>
        /\ Len(ret.ladder.bids) = Min(ret.levels, Cardinality(DistinctPrices(market.bids)))
        /\ Len(ret.ladder.asks) = Min(ret.levels, Cardinality(DistinctPrices(market.asks)))
        /\ ret.ladder.bids =
               get_ladder([market EXCEPT !.asks = <<>>], ret.levels, overflow_checks).bids
        /\ ret.ladder.asks =
               get_ladder([market EXCEPT !.bids = <<>>], ret.levels, overflow_checks).asks

\* asks at two prices and a bid, read at depth 1: the bids fill their one
\* level, and the asks still return theirs, cut at the cap
C28_Witness ==
    /\ Returned
    /\ ret.levels = 1
    /\ Len(market.bids) = 1
    /\ Cardinality(DistinctPrices(market.asks)) = 2
    /\ Len(ret.ladder.bids) = 1
    /\ Len(ret.ladder.asks) = 1
    /\ ret.ladder.asks[1].price_in_ticks = Price(market.asks[1].key)

Fits(tree) == \A p \in DistinctPrices(tree) : LotsAtPrice(tree, p) < Modulus

LevelsAreSumsModulo(levels, tree) ==
    \A i \in 1 .. Len(levels) :
        levels[i].size_in_base_lots = LotsAtPrice(tree, levels[i].price_in_ticks) % Modulus

\* C29: the sizes are accumulated with the machine's unsigned addition.  On a
\* book whose totals per price all fit the word, the call returns and every
\* level's size is the exact sum.  A total that does not fit is never returned
\* as such: the build with overflow checks returns exact sums only and panics
\* only when some total does not fit, the build without returns the sum modulo
\* 2^w.
C29_PlainUnsignedAddition ==
    (ret.op = "get_ladder" /\ ret.levels >= 1) =>
        /\ (Fits(market.bids) /\ Fits(market.asks)) =>
               /\ ~ret.ladder.panicked
               /\ LevelsAreSums(ret.ladder.bids, market.bids)
               /\ LevelsAreSums(ret.ladder.asks, market.asks)
        /\ ret.ladder.panicked =>
               /\ overflow_checks
               /\ ~(Fits(market.bids) /\ Fits(market.asks))
        /\ (~ret.ladder.panicked /\ overflow_checks) =>
               /\ LevelsAreSums(ret.ladder.bids, market.bids)
               /\ LevelsAreSums(ret.ladder.asks, market.asks)
        /\ (~ret.ladder.panicked /\ ~overflow_checks) =>
               /\ LevelsAreSumsModulo(ret.ladder.bids, market.bids)
               /\ LevelsAreSumsModulo(ret.ladder.asks, market.asks)

\* two bids at one price whose sizes add up below 2^w, read into one level
C29_Witness ==
    /\ Returned
    /\ ret.levels >= 1
    /\ Len(market.bids) = 2
    /\ Price(market.bids[1].key) = Price(market.bids[2].key)
    /\ market.bids[1].value.num_base_lots # market.bids[2].value.num_base_lots
    /\ ret.ladder.bids = <<LadderOrder(Price(market.bids[1].key), 1 + TopBit)>>

----------------------------------------------------------------------------
(* Dispatch and the buffer's content                                       *)

\* the buffer with its bytes replaced by c, length and alignment kept
WithContent(c) == [bytes EXCEPT !.content = c]

\* what the tuple, the length and the alignment alone say a load returns
OutcomeByShape(mutable) ==
    IF Supported /\ BufferSuffices THEN SomeHandle(ParamsTuple(params), mutable) ELSE None

\* C30: a step of load_with_dispatch or load_with_dispatch_mut leaves the
\* buffer as it was, and what it returned is fixed by the parameter tuple and
\* the buffer's length and alignment: the same call on a buffer of the same
\* length and alignment with any other content returns the same
C30_OutcomeIgnoresContent ==
    [][/\ bytes' = bytes
       /\ dret'.load # dret.load =>
              /\ dret'.load = OutcomeByShape(FALSE)
              /\ \A c \in BufferContents :
                     load_with_dispatch(params, WithContent(c)) = dret'.load
       /\ dret'.load_mut # dret.load_mut =>
              /\ dret'.load_mut = OutcomeByShape(TRUE)
              /\ \A c \in BufferContents :
                     load_with_dispatch_mut(params, WithContent(c)) = dret'.load_mut]_vars

\* a buffer written through (512, 512, 256), long enough for (1024, 1024, 128),
\* loaded both ways with the tuple (1024, 1024, 128)
C30_Witness ==
    /\ ParamsTuple(params) = <<1024, 1024, 128>>
    /\ bytes.content = <<512, 512, 256>>
    /\ dret.load = SomeHandle(<<1024, 1024, 128>>, FALSE)
    /\ dret.load_mut = SomeHandle(<<1024, 1024, 128>>, TRUE)

====
